---- MODULE Spec2Model ----
(***************************************************************************)
(* Model of peekingduck/pipeline/nodes/base.py: WeightsDownloaderMixin     *)
(* (download_weights and its helpers) over an explicit filesystem, a       *)
(* checksum manifest and a weights store.                                  *)
(*                                                                         *)
(* A path is a sequence of components, absolute when it starts with "/".   *)
(* A file's content is a sequence of numbers (bytes, or 32768-byte chunks  *)
(* of a served file).  SHA-256 is modelled as a collision-free             *)
(* accumulator: the sequence of everything fed to it, rendered by          *)
(* hexdigest as a string.                                                  *)
(***************************************************************************)
EXTENDS Integers, Sequences, FiniteSets, TLC

\* ------------------------------------------------------------- bounds
\* sha256sum's read size (hash_func.block_size * 1024), scaled down.
BufferSize == 2
\* Number of iter_content chunks a served file consists of.
ServedChunks == 2

\* ---------------------------------------------------------- constants
None == "None"
PEEKINGDUCK_WEIGHTS_SUBDIR == "peekingduck_weights"

\* The callers of download_weights.
Procs == {1, 2}

\* config["root"]: the install root; its parent is the default weights parent.
Root == <<"/", "opt", "peekingduck">>

\* Directories that exist before any download ("/data" absolute, "rel" relative).
ExistingParents == {<<"/", "opt">>, <<"/", "data">>, <<"rel">>}

\* Values config["weights_parent_dir"] is drawn from: None, or a path string
\* that exists or not, absolute or not.
ParentDirs == {<<>>, <<"/", "data">>, <<"/", "nowhere">>, <<"rel">>, <<"relnowhere">>}

\* The content the manifest vouches for, and a stale/corrupted content.
GoodData == <<1, 0, 1>>
BadData == <<1, 1>>

\* The bytes of a served file, as the chunks iter_content yields.
Served == [i \in 1..ServedChunks |-> i]

\* ------------------------------------------------------------ helpers
Parent(path) == SubSeq(path, 1, Len(path) - 1)

IsPrefix(a, b) == Len(a) <= Len(b) /\ SubSeq(b, 1, Len(a)) = a

\* str(model_type)
Str(n) == CASE n = 0 -> "0" [] n = 1 -> "1" [] OTHER -> "?"

\* One byte as two hex digits.
HexByte(b) == CASE b = 0 -> "00" [] b = 1 -> "01" [] b = 2 -> "02" [] OTHER -> "ff"

\* hash_func.hexdigest() of the accumulator acc.
RECURSIVE hexdigest(_)
hexdigest(acc) == IF acc = <<>> THEN "" ELSE HexByte(Head(acc)) \o hexdigest(Tail(acc))

\* hash_func.update(chunk)
update(acc, chunk) == acc \o chunk

\* The read loop cut to a single infile.read(buffer_size).
read_one_chunk(data, size, acc) ==
    update(acc, SubSeq(data, 1, IF Len(data) < size THEN Len(data) ELSE size))

\* The read loop of sha256sum on a file: infile.read(buffer_size) until b"".
RECURSIVE read_chunks(_, _, _)
read_chunks(data, size, acc) ==
    IF data = <<>> THEN acc
    ELSE LET n == IF Len(data) < size THEN Len(data) ELSE size
         IN read_chunks(SubSeq(data, n + 1, Len(data)), size,
                        update(acc, SubSeq(data, 1, n)))

\* sha256sum(path) for a regular file holding data, started from hash_func.
sha256sum(data, hash_func) == read_chunks(data, BufferSize, hash_func)

\* --------------------------------------------------- config properties
weights(cfg) == cfg.weights[cfg.model_format]
blob_filename(cfg) == weights(cfg).blob_file[cfg.model_type]
classes_filename(cfg) == weights(cfg).classes_file
model_filename(cfg) == weights(cfg).model_file[cfg.model_type]
model_subdir(cfg) == weights(cfg).model_subdir

Ok(v) == [kind |-> "ok", val |-> v]
Err(e) == [kind |-> "err", val |-> e]
NoResult == [kind |-> "none", val |-> None]

\* _find_paths with is_absolute() tested before exists().
find_paths_absolute_first(cfg, existing) ==
    IF cfg.weights_parent_dir = <<>>
    THEN Ok(Parent(cfg.root)
            \o <<PEEKINGDUCK_WEIGHTS_SUBDIR, model_subdir(cfg), cfg.model_format>>)
    ELSE IF cfg.weights_parent_dir[1] # "/"
    THEN Err("ValueError")
    ELSE IF cfg.weights_parent_dir \notin existing
    THEN Err("FileNotFoundError")
    ELSE Ok(cfg.weights_parent_dir
            \o <<PEEKINGDUCK_WEIGHTS_SUBDIR, model_subdir(cfg), cfg.model_format>>)

\* _find_paths: the resolved directory, or the error raised.
find_paths(cfg, existing) ==
    IF cfg.weights_parent_dir = <<>>
    THEN Ok(Parent(cfg.root)
            \o <<PEEKINGDUCK_WEIGHTS_SUBDIR, model_subdir(cfg), cfg.model_format>>)
    ELSE IF cfg.weights_parent_dir \notin existing
    THEN Err("FileNotFoundError")
    ELSE IF cfg.weights_parent_dir[1] # "/"
    THEN Err("ValueError")
    ELSE Ok(cfg.weights_parent_dir
            \o <<PEEKINGDUCK_WEIGHTS_SUBDIR, model_subdir(cfg), cfg.model_format>>)

\* _get_weights_checksum reading the manifest with dict.get and a default.
get_weights_checksum_default(cfg, mf) ==
    IF ~mf.up THEN Err("ConnectionError")
    ELSE IF model_subdir(cfg) \notin DOMAIN mf.json THEN Ok("")
    ELSE IF cfg.model_format \notin DOMAIN mf.json[model_subdir(cfg)]
    THEN Ok("")
    ELSE IF Str(cfg.model_type) \notin DOMAIN mf.json[model_subdir(cfg)][cfg.model_format]
    THEN Ok("")
    ELSE Ok(mf.json[model_subdir(cfg)][cfg.model_format][Str(cfg.model_type)])

\* _get_weights_checksum: the manifest digest, or the error raised.  mf.up
\* says whether the GET of weights_checksums.json succeeds; mf.json is the
\* parsed document.
get_weights_checksum(cfg, mf) ==
    IF ~mf.up THEN Err("ConnectionError")
    ELSE IF model_subdir(cfg) \notin DOMAIN mf.json THEN Err("KeyError")
    ELSE IF cfg.model_format \notin DOMAIN mf.json[model_subdir(cfg)]
    THEN Err("KeyError")
    ELSE IF Str(cfg.model_type) \notin DOMAIN mf.json[model_subdir(cfg)][cfg.model_format]
    THEN Err("KeyError")
    ELSE Ok(mf.json[model_subdir(cfg)][cfg.model_format][Str(cfg.model_type)])

NoWeights == "No weights detected."
Corrupted == "Weights file is corrupted/out-of-date."

\* _has_weights with the digest comparison inverted (== for !=).
has_weights_inverted(fs, dir, cfg, mf) ==
    LET weights_path == dir \o <<model_filename(cfg)>>
    IN IF weights_path \notin DOMAIN fs
       THEN [res |-> Ok(FALSE), fetched |-> FALSE, warning |-> NoWeights]
       ELSE LET sum == get_weights_checksum(cfg, mf)
            IN IF sum.kind = "err"
               THEN [res |-> sum, fetched |-> TRUE, warning |-> None]
               ELSE IF hexdigest(sha256sum(fs[weights_path], <<>>)) = sum.val
               THEN [res |-> Ok(FALSE), fetched |-> TRUE, warning |-> Corrupted]
               ELSE [res |-> Ok(TRUE), fetched |-> TRUE, warning |-> None]

\* _has_weights with the manifest digest fetched before the test of
\* weights_path.exists().
has_weights_manifest_first(fs, dir, cfg, mf) ==
    LET weights_path == dir \o <<model_filename(cfg)>>
        sum == get_weights_checksum(cfg, mf)
    IN IF sum.kind = "err"
       THEN [res |-> sum, fetched |-> TRUE, warning |-> None]
       ELSE IF weights_path \notin DOMAIN fs
       THEN [res |-> Ok(FALSE), fetched |-> TRUE, warning |-> NoWeights]
       ELSE IF hexdigest(sha256sum(fs[weights_path], <<>>)) # sum.val
       THEN [res |-> Ok(FALSE), fetched |-> TRUE, warning |-> Corrupted]
       ELSE [res |-> Ok(TRUE), fetched |-> TRUE, warning |-> None]

\* _has_weights: Ok(TRUE/FALSE), or the error _get_weights_checksum raised.
\* fetched tells whether the manifest was requested, warning what
\* self.logger.warning was given.
has_weights(fs, dir, cfg, mf) ==
    LET weights_path == dir \o <<model_filename(cfg)>>
    IN IF weights_path \notin DOMAIN fs
       THEN [res |-> Ok(FALSE), fetched |-> FALSE, warning |-> NoWeights]
       ELSE LET sum == get_weights_checksum(cfg, mf)
            IN IF sum.kind = "err"
               THEN [res |-> sum, fetched |-> TRUE, warning |-> None]
               ELSE IF hexdigest(sha256sum(fs[weights_path], <<>>)) # sum.val
               THEN [res |-> Ok(FALSE), fetched |-> TRUE, warning |-> Corrupted]
               ELSE [res |-> Ok(TRUE), fetched |-> TRUE, warning |-> None]

\* ------------------------------------------------- filesystem helpers
\* Path.mkdir(parents=True, exist_ok=True)
mkdir(ds, dir) == ds \cup {SubSeq(dir, 1, n) : n \in 1..Len(dir)}

\* A write of chunk c at offset pos - 1 of a file holding data (a write past
\* the end leaves a hole of zeros).
WriteAt(data, pos, c) ==
    IF pos <= Len(data) THEN [data EXCEPT ![pos] = c]
    ELSE data \o [i \in 1..(pos - 1 - Len(data)) |-> 0] \o <<c>>

\* The filesystem fs with path holding data / with path unlinked.
Put(fs, path, data) == (path :> data) @@ fs
Remove(fs, path) == [q \in DOMAIN fs \ {path} |-> fs[q]]

\* infile.extract with the path argument left out: the member lands in the
\* working directory, not in destination_dir.
extract_to_cwd(fs, destination_dir, member) ==
    Put(fs, <<member.name>>, member.data)

\* infile.extract(member=file, path=destination_dir)
extract(fs, destination_dir, member) ==
    Put(fs, destination_dir \o <<member.name>>, member.data)

\* zipfile.ZipFile(zip_path, "r"): the bytes on disk are a readable archive
\* exactly when they are the complete bytes of a served zip archive.
IsZip(st, data) == st.zip /\ data = Served

\* ---------------------------------------------------------- the state
VARIABLES
    config,     \* self.config (read-only)
    manifest,   \* what GET <base_url>/weights_checksums.json gives
    store,      \* what GET <base_url>/<subdir>/<format>/<blob_file> gives
    dirs,       \* the directories on disk
    files,      \* the regular files on disk: path -> content
    pc,         \* each caller's position in download_weights
    model_dir,  \* each caller's local model_dir
    result,     \* what the caller's invocation returned or raised
    open,       \* the sessions, responses and handles a caller holds open
    steps,      \* the steps of the current invocation, in order
    logged,     \* the warning _has_weights logged in the current invocation
    target,     \* filename of the running _download_to
    woff,       \* chunks written by the running _download_to
    linked,     \* the caller's open handle is that of the file now at its path
    xi,         \* index of the next member _extract_file extracts
    vcall,      \* the pending call of a ThresholdCheckerMixin method
    vret,       \* what that call returned or raised, and what it read
    request,    \* the request handed to LocalFileAdapter.send
    response,   \* the response send returned
    tree,       \* the file or directory handed to sha256sum
    digest      \* the hexdigest of the last sha256sum of tree

vars == <<config, manifest, store, dirs, files, pc, model_dir, result, open,
          steps, logged, target, woff, linked, xi,
          vcall, vret, request, response, tree, digest>>
\* What the other classes and the static method of the file work on;
\* download_weights touches none of it.
others == <<vcall, vret, request, response, tree, digest>>
env == <<config, manifest, store, others>>

\* ------------------------------------------------------ initial states
Weights(classes) ==
    [tensorflow |-> [blob_file |-> (0 :> "efficientdet-d0.zip"),
                     model_file |-> (0 :> "efficientdet-d0.pb"),
                     classes_file |-> classes,
                     model_subdir |-> "efficientdet"]]

Configs ==
    {[root |-> Root, weights_parent_dir |-> d, model_format |-> "tensorflow",
      model_type |-> 0, weights |-> Weights(c)]
        : d \in ParentDirs, c \in {None, "coco.json"}}

Manifests ==
    {[up |-> TRUE, json |-> ("efficientdet" :> ("tensorflow" :> ("0" :> "010001")))],
     [up |-> TRUE, json |-> ("efficientdet" :> ("tensorflow" :> ("1" :> "010001")))],
     [up |-> TRUE, json |-> ("efficientdet" :> ("onnx" :> ("0" :> "010001")))],
     [up |-> TRUE, json |-> ("yolo" :> ("tensorflow" :> ("0" :> "010001")))],
     [up |-> FALSE, json |-> ("efficientdet" :> ("tensorflow" :> ("0" :> "010001")))]}

Stores ==
    {[zip |-> TRUE, members |-> <<[name |-> "efficientdet-d0.pb", data |-> GoodData],
                                  [name |-> "saved_model.cfg", data |-> <<2>>]>>],
     [zip |-> TRUE, members |-> <<[name |-> "efficientdet-d0.pb", data |-> BadData]>>],
     [zip |-> TRUE, members |-> <<[name |-> "saved_model.cfg", data |-> <<2>>]>>],
     [zip |-> FALSE, members |-> <<>>]}

\* The directory the weights of cfg live in, when its parent is usable.
TargetDir(cfg) ==
    (IF cfg.weights_parent_dir = <<>> THEN <<"/", "opt">> ELSE cfg.weights_parent_dir)
        \o <<"peekingduck_weights", "efficientdet", "tensorflow">>

\* The disks a first invocation can find: no weights directory, an empty
\* one, or one holding the model file with good or bad content.
Disks(cfg) ==
    LET dir == TargetDir(cfg)
        made == ExistingParents \cup {SubSeq(dir, 1, n) : n \in 1..Len(dir)}
        f == dir \o <<"efficientdet-d0.pb">>
    IN {[dirs |-> ExistingParents, files |-> <<>>]} \cup
       (IF Parent(Parent(Parent(dir))) \in ExistingParents
        THEN {[dirs |-> made, files |-> <<>>],
              [dirs |-> made, files |-> (f :> GoodData)],
              [dirs |-> made, files |-> (f :> BadData)]}
        ELSE {})

InitCallers ==
    /\ pc = [p \in Procs |-> "idle"]
    /\ model_dir = [p \in Procs |-> <<>>]
    /\ result = [p \in Procs |-> NoResult]
    /\ open = [p \in Procs |-> {}]
    /\ steps = [p \in Procs |-> <<>>]
    /\ logged = [p \in Procs |-> None]
    /\ target = [p \in Procs |-> None]
    /\ woff = [p \in Procs |-> 0]
    /\ linked = [p \in Procs |-> FALSE]
    /\ xi = [p \in Procs |-> 0]

\* No validator call, no adapter request and no hashing is under way.
InitOthers ==
    /\ vcall = None /\ vret = None
    /\ request = None /\ response = None
    /\ tree = None /\ digest = None

Init ==
    /\ InitOthers
    /\ config \in Configs
    /\ manifest \in Manifests
    /\ store \in Stores
    /\ \E d \in Disks(config) : dirs = d.dirs /\ files = d.files
    /\ InitCallers

\* ------------------------------------------------------------ actions
Fail(p, e) ==
    /\ pc' = [pc EXCEPT ![p] = "ERROR"]
    /\ result' = [result EXCEPT ![p] = Err(e)]

\* download_weights is called.
Call(p) ==
    /\ pc[p] = "idle"
    /\ pc' = [pc EXCEPT ![p] = "RESOLVE_PATH"]
    /\ result' = [result EXCEPT ![p] = NoResult]
    /\ UNCHANGED <<env, logged, dirs, files, model_dir, open, steps, target, woff, linked, xi>>

\* model_dir = self._find_paths()
FindPaths(p) ==
    /\ pc[p] = "RESOLVE_PATH"
    /\ LET r == find_paths(config, dirs)
       IN IF r.kind = "err"
          THEN /\ Fail(p, r.val)
               /\ UNCHANGED model_dir
          ELSE /\ pc' = [pc EXCEPT ![p] = "CHECK_EXISTING"]
               /\ model_dir' = [model_dir EXCEPT ![p] = r.val]
               /\ UNCHANGED result
    /\ steps' = [steps EXCEPT ![p] = Append(@, "RESOLVE_PATH")]
    /\ UNCHANGED <<env, logged, dirs, files, open, target, woff, linked, xi>>

\* HasWeights deleting a model file it finds corrupted.
HasWeightsRepair(p) ==
    /\ pc[p] = "CHECK_EXISTING"
    /\ LET r == has_weights(files, model_dir[p], config, manifest)
       IN /\ open' = [open EXCEPT ![p] =
                        IF r.fetched THEN @ \cup {"manifest_session"} ELSE @]
          /\ logged' = [logged EXCEPT ![p] = r.warning]
          /\ files' = IF r.warning = Corrupted
                      THEN Remove(files, model_dir[p] \o <<model_filename(config)>>)
                      ELSE files
          /\ IF r.res.kind = "err"
             THEN /\ Fail(p, r.res.val)
                  /\ steps' = [steps EXCEPT ![p] = Append(@, "CHECK_EXISTING")]
             ELSE IF r.res.val
             THEN /\ pc' = [pc EXCEPT ![p] = "DONE"]
                  /\ result' = [result EXCEPT ![p] = Ok(model_dir[p])]
                  /\ steps' = [steps EXCEPT ![p] = @ \o <<"CHECK_EXISTING", "DONE">>]
             ELSE /\ pc' = [pc EXCEPT ![p] = "FETCH"]
                  /\ steps' = [steps EXCEPT ![p] = Append(@, "CHECK_EXISTING")]
                  /\ UNCHANGED result
    /\ UNCHANGED <<env, dirs, model_dir, target, woff, linked, xi>>

\* if self._has_weights(model_dir): return model_dir
HasWeights(p) ==
    /\ pc[p] = "CHECK_EXISTING"
    /\ LET r == has_weights(files, model_dir[p], config, manifest)
       IN /\ open' = [open EXCEPT ![p] =
                        IF r.fetched THEN @ \cup {"manifest_session"} ELSE @]
          /\ logged' = [logged EXCEPT ![p] = r.warning]
          /\ IF r.res.kind = "err"
             THEN /\ Fail(p, r.res.val)
                  /\ steps' = [steps EXCEPT ![p] = Append(@, "CHECK_EXISTING")]
             ELSE IF r.res.val
             THEN /\ pc' = [pc EXCEPT ![p] = "DONE"]
                  /\ result' = [result EXCEPT ![p] = Ok(model_dir[p])]
                  /\ steps' = [steps EXCEPT ![p] = @ \o <<"CHECK_EXISTING", "DONE">>]
             ELSE /\ pc' = [pc EXCEPT ![p] = "FETCH"]
                  /\ steps' = [steps EXCEPT ![p] = Append(@, "CHECK_EXISTING")]
                  /\ UNCHANGED result
    /\ UNCHANGED <<env, dirs, files, model_dir, target, woff, linked, xi>>

\* Mkdir behind a per-directory lock: it waits while another caller is
\* between FETCH and the end of its invocation.
MkdirLocked(p) ==
    /\ pc[p] = "FETCH"
    /\ \A q \in Procs \ {p} : pc[q] \in {"idle", "RESOLVE_PATH", "CHECK_EXISTING", "FETCH"}
    /\ dirs' = mkdir(dirs, model_dir[p])
    /\ pc' = [pc EXCEPT ![p] = "DL_OPEN"]
    /\ target' = [target EXCEPT ![p] = blob_filename(config)]
    /\ steps' = [steps EXCEPT ![p] = Append(@, "MKDIR")]
    /\ UNCHANGED <<env, logged, files, model_dir, result, open, woff, linked, xi>>

\* model_dir.mkdir(parents=True, exist_ok=True), then the call of
\* self._download_to(self.blob_filename, model_dir)
Mkdir(p) ==
    /\ pc[p] = "FETCH"
    /\ dirs' = mkdir(dirs, model_dir[p])
    /\ pc' = [pc EXCEPT ![p] = "DL_OPEN"]
    /\ target' = [target EXCEPT ![p] = blob_filename(config)]
    /\ steps' = [steps EXCEPT ![p] = Append(@, "MKDIR")]
    /\ UNCHANGED <<env, logged, files, model_dir, result, open, woff, linked, xi>>

\* The destination taken beside model_dir, not in it.
DestPathBeside(p) == Parent(model_dir[p]) \o <<target[p]>>

\* destination_dir / filename
DestPath(p) == model_dir[p] \o <<target[p]>>

\* _download_to, up to the first chunk: the session is made, the destination
\* is opened "wb" (created or truncated), then the GET is sent; a GET that
\* raises leaves the with statement, which closes the destination.
DownloadOpen(p) ==
    /\ pc[p] = "DL_OPEN"
    /\ files' = Put(files, DestPath(p), <<>>)
    /\ \/ /\ pc' = [pc EXCEPT ![p] = "DL_WRITE"]
          /\ open' = [open EXCEPT ![p] = @ \cup {"download_session", "outfile", "response"}]
          /\ linked' = [linked EXCEPT ![p] = TRUE]
          /\ woff' = [woff EXCEPT ![p] = 0]
          /\ steps' = [steps EXCEPT ![p] =
                         Append(@, IF target[p] = blob_filename(config)
                                   THEN "GET_ARCHIVE" ELSE "GET_CLASSES")]
          /\ UNCHANGED result
       \/ /\ Fail(p, "ConnectionError")
          /\ open' = [open EXCEPT ![p] = @ \cup {"download_session"}]
          /\ UNCHANGED <<linked, woff, steps>>
    /\ UNCHANGED <<env, logged, dirs, model_dir, target, xi>>

\* One turn of the loop over response.iter_content: outfile.write(chunk).
\* A handle whose file was unlinked meanwhile writes to no path.
DownloadChunk(p) ==
    /\ pc[p] = "DL_WRITE"
    /\ woff[p] < Len(Served)
    /\ files' = IF linked[p] /\ DestPath(p) \in DOMAIN files
                THEN Put(files, DestPath(p),
                         WriteAt(files[DestPath(p)], woff[p] + 1, Served[woff[p] + 1]))
                ELSE files
    /\ woff' = [woff EXCEPT ![p] = @ + 1]
    /\ UNCHANGED <<env, logged, dirs, pc, model_dir, result, open, steps, target, linked, xi>>

\* The stream or the write raises part-way: the with statement closes the
\* destination and the response, the exception leaves download_weights.
DownloadFail(p) ==
    /\ pc[p] = "DL_WRITE"
    /\ woff[p] < Len(Served)
    /\ Fail(p, "IOError")
    /\ open' = [open EXCEPT ![p] = @ \ {"outfile", "response"}]
    /\ linked' = [linked EXCEPT ![p] = FALSE]
    /\ UNCHANGED <<env, logged, dirs, files, model_dir, steps, target, woff, xi>>

\* The stream is exhausted: the with statement closes the destination and
\* the response, _download_to returns into download_weights.
DownloadClose(p) ==
    /\ pc[p] = "DL_WRITE"
    /\ woff[p] = Len(Served)
    /\ open' = [open EXCEPT ![p] = @ \ {"outfile", "response"}]
    /\ linked' = [linked EXCEPT ![p] = FALSE]
    /\ IF target[p] = blob_filename(config)
       THEN /\ pc' = [pc EXCEPT ![p] = "EXTRACT"]
            /\ steps' = [steps EXCEPT ![p] = Append(@, "ARCHIVE_SAVED")]
            /\ UNCHANGED result
       ELSE /\ pc' = [pc EXCEPT ![p] = "DONE"]
            /\ steps' = [steps EXCEPT ![p] = @ \o <<"CLASSES_SAVED", "DONE">>]
            /\ result' = [result EXCEPT ![p] = Ok(model_dir[p])]
    /\ UNCHANGED <<env, logged, dirs, files, model_dir, target, woff, xi>>

ZipPath(p) == model_dir[p] \o <<blob_filename(config)>>

\* _extract_file: zipfile.ZipFile(zip_path, "r") and infile.namelist()
ExtractOpen(p) ==
    /\ pc[p] = "EXTRACT"
    /\ IF ZipPath(p) \notin DOMAIN files
       THEN /\ Fail(p, "FileNotFoundError")
            /\ UNCHANGED <<open, linked, xi, steps>>
       ELSE IF ~IsZip(store, files[ZipPath(p)])
       THEN /\ Fail(p, "BadZipFile")
            /\ UNCHANGED <<open, linked, xi, steps>>
       ELSE /\ pc' = [pc EXCEPT ![p] = "EXTRACTING"]
            /\ open' = [open EXCEPT ![p] = @ \cup {"zipfile"}]
            /\ linked' = [linked EXCEPT ![p] = TRUE]
            /\ xi' = [xi EXCEPT ![p] = 1]
            /\ steps' = [steps EXCEPT ![p] = Append(@, "EXTRACT")]
            /\ UNCHANGED result
    /\ UNCHANGED <<env, logged, dirs, files, model_dir, target, woff>>

\* The archive can still be read through the caller's handle: the file at
\* its path is intact, or the handle is that of an unlinked file.
Readable(p) ==
    linked[p] => (ZipPath(p) \in DOMAIN files /\ IsZip(store, files[ZipPath(p)]))

\* infile.extract(member=file, path=destination_dir) for the next member
ExtractMember(p) ==
    /\ pc[p] = "EXTRACTING"
    /\ xi[p] <= Len(store.members)
    /\ Readable(p)
    /\ files' = extract(files, model_dir[p], store.members[xi[p]])
    /\ xi' = [xi EXCEPT ![p] = @ + 1]
    /\ UNCHANGED <<env, logged, dirs, pc, model_dir, result, open, steps, target, woff, linked>>

\* ExtractFail with the archive removed on the way out (os.remove in a
\* finally clause).
ExtractFailCleanup(p) ==
    /\ pc[p] = "EXTRACTING"
    /\ xi[p] <= Len(store.members)
    /\ Fail(p, "OSError")
    /\ open' = [open EXCEPT ![p] = @ \ {"zipfile"}]
    /\ linked' = [linked EXCEPT ![p] = FALSE]
    /\ files' = Remove(files, model_dir[p] \o <<blob_filename(config)>>)
    /\ UNCHANGED <<env, logged, dirs, model_dir, steps, target, woff, xi>>

\* Extracting the next member raises: the with statement closes the archive,
\* the exception leaves download_weights before os.remove.
ExtractFail(p) ==
    /\ pc[p] = "EXTRACTING"
    /\ xi[p] <= Len(store.members)
    /\ Fail(p, IF Readable(p) THEN "OSError" ELSE "BadZipFile")
    /\ open' = [open EXCEPT ![p] = @ \ {"zipfile"}]
    /\ linked' = [linked EXCEPT ![p] = FALSE]
    /\ UNCHANGED <<env, logged, dirs, files, model_dir, steps, target, woff, xi>>

\* Every member is extracted: the with statement closes the archive.
ExtractClose(p) ==
    /\ pc[p] = "EXTRACTING"
    /\ xi[p] > Len(store.members)
    /\ pc' = [pc EXCEPT ![p] = "REMOVE"]
    /\ open' = [open EXCEPT ![p] = @ \ {"zipfile"}]
    /\ linked' = [linked EXCEPT ![p] = FALSE]
    /\ steps' = [steps EXCEPT ![p] = Append(@, "EXTRACTED")]
    /\ UNCHANGED <<env, logged, dirs, files, model_dir, result, target, woff, xi>>

\* os.remove(zip_path): handles other callers hold on the file outlive it.
RemoveArchive(p) ==
    /\ pc[p] = "REMOVE"
    /\ IF ZipPath(p) \notin DOMAIN files
       THEN /\ Fail(p, "FileNotFoundError")
            /\ UNCHANGED <<files, linked, steps>>
       ELSE /\ files' = Remove(files, ZipPath(p))
            /\ linked' = [q \in Procs |->
                            IF target[q] = blob_filename(config) THEN FALSE ELSE linked[q]]
            /\ pc' = [pc EXCEPT ![p] = "FETCH_AUX"]
            /\ steps' = [steps EXCEPT ![p] = Append(@, "DELETE_ARCHIVE")]
            /\ UNCHANGED result
    /\ UNCHANGED <<env, logged, dirs, model_dir, open, target, woff, xi>>

\* FetchAux without the test of classes_filename.
FetchAuxAlways(p) ==
    /\ pc[p] = "FETCH_AUX"
    /\ pc' = [pc EXCEPT ![p] = "DL_OPEN"]
    /\ target' = [target EXCEPT ![p] = classes_filename(config)]
    /\ UNCHANGED <<result, steps>>
    /\ UNCHANGED <<env, logged, dirs, files, model_dir, open, woff, linked, xi>>

\* if self.classes_filename is not None: self._download_to(classes_filename, ...)
FetchAux(p) ==
    /\ pc[p] = "FETCH_AUX"
    /\ IF classes_filename(config) # None
       THEN /\ pc' = [pc EXCEPT ![p] = "DL_OPEN"]
            /\ target' = [target EXCEPT ![p] = classes_filename(config)]
            /\ UNCHANGED <<result, steps>>
       ELSE /\ pc' = [pc EXCEPT ![p] = "DONE"]
            /\ result' = [result EXCEPT ![p] = Ok(model_dir[p])]
            /\ steps' = [steps EXCEPT ![p] = Append(@, "DONE")]
            /\ UNCHANGED target
    /\ UNCHANGED <<env, logged, dirs, files, model_dir, open, woff, linked, xi>>

\* download_weights has returned or raised; the caller's frame is gone.
Return(p) ==
    /\ pc[p] \in {"DONE", "ERROR"}
    /\ pc' = [pc EXCEPT ![p] = "idle"]
    /\ model_dir' = [model_dir EXCEPT ![p] = <<>>]
    /\ steps' = [steps EXCEPT ![p] = <<>>]
    /\ logged' = [logged EXCEPT ![p] = None]
    /\ target' = [target EXCEPT ![p] = None]
    /\ woff' = [woff EXCEPT ![p] = 0]
    /\ xi' = [xi EXCEPT ![p] = 0]
    /\ UNCHANGED <<env, dirs, files, result, open, linked>>

\* The steps of an invocation under way.
Step(p) ==
    \/ FindPaths(p) \/ HasWeights(p) \/ Mkdir(p)
    \/ DownloadOpen(p) \/ DownloadChunk(p) \/ DownloadFail(p) \/ DownloadClose(p)
    \/ ExtractOpen(p) \/ ExtractMember(p) \/ ExtractFail(p) \/ ExtractClose(p)
    \/ RemoveArchive(p) \/ FetchAux(p) \/ Return(p)

\* At most one caller per target directory at a time (the baseline contract):
\* download_weights is called only while no other invocation is under way.
SoloCall(p) ==
    /\ \A q \in Procs \ {p} : pc[q] = "idle"
    /\ Call(p)

Next == \E p \in Procs : SoloCall(p) \/ Step(p)

Spec == Init /\ [][Next]_vars

\* Two callers of the same target directory, interleaved at will.
InitConc ==
    /\ InitOthers
    /\ config \in {c \in Configs : c.weights_parent_dir = <<>>}
    /\ manifest \in {m \in Manifests : m.up /\ "efficientdet" \in DOMAIN m.json
                                        /\ "tensorflow" \in DOMAIN m.json["efficientdet"]
                                        /\ "0" \in DOMAIN m.json["efficientdet"]["tensorflow"]}
    /\ store \in {s \in Stores : Len(s.members) # 1}
    /\ \E d \in Disks(config) : dirs = d.dirs /\ files = d.files
    /\ InitCallers

NextConc == \E p \in Procs : Call(p) \/ Step(p)

SpecConc == InitConc /\ [][NextConc]_vars

\* ============================================================== claims
\* What the claims speak of, stated on the state, apart from the operators
\* that model the code.
ModelFile(p) == model_dir[p] \o <<"efficientdet-d0.pb">>
Archive(p) == model_dir[p] \o <<"efficientdet-d0.zip">>
Present(p) == ModelFile(p) \in DOMAIN files
Steps(p) == {steps[p][i] : i \in 1..Len(steps[p])}
\* The first n members of the served archive are in dir as served.
MembersIn(dir, n) ==
    \A i \in 1..n :
        /\ dir \o <<store.members[i].name>> \in DOMAIN files
        /\ files[dir \o <<store.members[i].name>>] = store.members[i].data
HasEntry ==
    /\ manifest.up
    /\ "efficientdet" \in DOMAIN manifest.json
    /\ "tensorflow" \in DOMAIN manifest.json["efficientdet"]
    /\ "0" \in DOMAIN manifest.json["efficientdet"]["tensorflow"]
Entry == manifest.json["efficientdet"]["tensorflow"]["0"]
\* The model file is on disk and its digest is the manifest's.
Verified(p) == Present(p) /\ HasEntry /\ hexdigest(files[ModelFile(p)]) = Entry
\* The model file is on disk and its digest is not the manifest's.
Mismatch(p) == Present(p) /\ HasEntry /\ hexdigest(files[ModelFile(p)]) # Entry

SkipRun == <<"RESOLVE_PATH", "CHECK_EXISTING", "DONE">>
FetchRun == <<"RESOLVE_PATH", "CHECK_EXISTING", "MKDIR", "GET_ARCHIVE", "ARCHIVE_SAVED",
              "EXTRACT", "EXTRACTED", "DELETE_ARCHIVE">>
FullRun ==
    FetchRun \o (IF config.weights.tensorflow.classes_file = None THEN <<"DONE">>
                 ELSE <<"GET_CLASSES", "CLASSES_SAVED", "DONE">>)
Last(seq) == seq[Len(seq)]

\* C1: an invocation that finds the model file present with the manifest's
\* digest goes from CHECK_EXISTING straight to DONE and returns the resolved
\* directory, having made no directory, fetched no archive or classes file
\* and extracted nothing; every step of such an invocation (the call, path
\* resolution, the check, the return) leaves directories and files as they
\* were.
C1_ShortCircuit ==
    [][/\ \A p \in Procs :
            (pc[p] = "CHECK_EXISTING" /\ Verified(p)) =>
                /\ pc'[p] = "DONE"
                /\ result'[p] = Ok(model_dir[p])
                /\ steps'[p] = SkipRun
                /\ dirs' = dirs /\ files' = files
       /\ (\A q \in Procs :
             \/ pc'[q] \in {"idle", "RESOLVE_PATH", "CHECK_EXISTING"}
             \/ pc'[q] = "DONE" /\ steps'[q] = SkipRun)
          => (dirs' = dirs /\ files' = files)]_vars

C1_Witness ==
    \E p \in Procs :
        /\ pc[p] = "DONE" /\ steps[p] = SkipRun /\ Verified(p)
        /\ result[p] = Ok(model_dir[p])
        /\ "manifest_session" \in open[p] /\ "download_session" \in open[p]

ArchiveVouched ==
    \E i \in 1..Len(store.members) :
        /\ store.members[i].name = "efficientdet-d0.pb"
        /\ HasEntry /\ hexdigest(store.members[i].data) = Entry

C3_StepOrder ==
    \A p \in Procs :
        /\ IsPrefix(steps[p], SkipRun) \/ IsPrefix(steps[p], FullRun)
        /\ pc[p] \in {"EXTRACT", "EXTRACTING", "REMOVE"} =>
              (target[p] = "efficientdet-d0.zip" /\ woff[p] = Len(Served)
               /\ Last(steps[p]) \in {"ARCHIVE_SAVED", "EXTRACT", "EXTRACTED"})
        /\ xi[p] > 0 => "EXTRACT" \in {steps[p][i] : i \in 1..Len(steps[p])}
        /\ target[p] = "coco.json" =>
              (config.weights.tensorflow.classes_file = "coco.json"
               /\ Archive(p) \notin DOMAIN files
               /\ "DELETE_ARCHIVE" \in {steps[p][i] : i \in 1..Len(steps[p])})
        /\ pc[p] = "DONE" =>
              (Last(steps[p]) = "DONE" /\ result[p] = Ok(model_dir[p])
               /\ model_dir[p] = TargetDir(config))

C3_Witness ==
    \E p \in Procs :
        pc[p] = "DONE" /\ Len(steps[p]) = 11 /\ steps[p] = FullRun

\* C4: an invocation that fails in EXTRACT (opening the archive, or
\* extracting a member) ends with that error, the archive still in the
\* target directory, the members extracted before the failure still on
\* disk and no classes file fetched, and goes nowhere but back to the
\* caller; the archive leaves the disk only in the step after the last
\* member's extraction, with every member on disk.
C4_ArchiveKept ==
    /\ [](\A p \in Procs :
            (pc[p] = "ERROR" /\ steps[p] # <<>>
             /\ Last(steps[p]) \in {"ARCHIVE_SAVED", "EXTRACT"}) =>
                /\ result[p] \in {Err("BadZipFile"), Err("OSError")}
                /\ Archive(p) \in DOMAIN files
                /\ files[Archive(p)] = Served
                /\ MembersIn(model_dir[p], xi[p] - 1)
                /\ "GET_CLASSES" \notin Steps(p))
    /\ [][\A p \in Procs :
            /\ pc[p] = "ERROR" => pc'[p] \in {"ERROR", "idle"}
            /\ (Archive(p) \in DOMAIN files /\ Archive(p) \notin DOMAIN files') =>
                  (pc[p] = "REMOVE" /\ xi[p] = Len(store.members) + 1
                   /\ MembersIn(model_dir[p], Len(store.members)))]_vars

C4_Witness ==
    \E p \in Procs :
        /\ pc[p] = "ERROR" /\ result[p] = Err("OSError")
        /\ Last(steps[p]) = "EXTRACT" /\ xi[p] = 2
        /\ Archive(p) \in DOMAIN files
        /\ Present(p) /\ files[ModelFile(p)] = GoodData

\* C5: _has_weights gives False for an absent model file, False for a
\* present one whose digest is not the manifest's, and True exactly for a
\* present one whose digest is the manifest's; download_weights goes on to
\* FETCH in the first two cases and to DONE in the third.
C5_HasWeightsTable ==
    /\ LET dir == TargetDir(config)
           f == dir \o <<"efficientdet-d0.pb">>
           r == has_weights(files, dir, config, manifest).res
       IN /\ f \notin DOMAIN files => r = Ok(FALSE)
          /\ (f \in DOMAIN files /\ HasEntry /\ hexdigest(files[f]) # Entry) => r = Ok(FALSE)
          /\ (f \in DOMAIN files /\ HasEntry /\ hexdigest(files[f]) = Entry) => r = Ok(TRUE)
          /\ r = Ok(TRUE) => (f \in DOMAIN files /\ HasEntry /\ hexdigest(files[f]) = Entry)
    /\ \A p \in Procs :
          /\ pc[p] = "FETCH" =>
                \/ ~Present(p) /\ logged[p] = NoWeights
                \/ Mismatch(p) /\ logged[p] = Corrupted
          /\ (pc[p] = "DONE" /\ steps[p] = SkipRun) => Verified(p)
          /\ (steps[p] # <<>> /\ Last(steps[p]) = "CHECK_EXISTING" /\ Verified(p)) =>
                pc[p] # "FETCH"

C5_Witness ==
    \E p \in Procs :
        /\ pc[p] = "FETCH" /\ Mismatch(p) /\ logged[p] = Corrupted
        /\ has_weights(files, model_dir[p], config, manifest).res = Ok(FALSE)

\* C6: the step that runs _has_weights leaves every directory and file as
\* it was, whether the model file is absent, mismatching or verified and
\* whether or not the manifest fetch or lookup fails.
C6_CheckReadsOnly ==
    [][\A p \in Procs :
          (pc[p] = "CHECK_EXISTING" /\ pc'[p] # "CHECK_EXISTING") =>
              (dirs' = dirs /\ files' = files)]_vars

C6_Witness ==
    \E p \in Procs :
        /\ pc[p] = "FETCH" /\ logged[p] = Corrupted
        /\ Last(steps[p]) = "CHECK_EXISTING"
        /\ Present(p) /\ files[ModelFile(p)] = BadData

\* C7: with two callers of one target directory no step of download_weights
\* ever waits for the other caller: wherever a caller stands, its next step
\* can be taken whatever the other caller is doing.  (The witness is the
\* race: both callers were told the weights are missing or corrupted, and
\* one extracts or has deleted the archive the other is still writing.)
C7_NothingSerialises ==
    \A p \in Procs :
        /\ pc[p] = "idle" => ENABLED Call(p)
        /\ pc[p] = "RESOLVE_PATH" => ENABLED FindPaths(p)
        /\ pc[p] = "CHECK_EXISTING" => ENABLED HasWeights(p)
        /\ pc[p] = "FETCH" => ENABLED Mkdir(p)
        /\ pc[p] = "DL_OPEN" => ENABLED DownloadOpen(p)
        /\ pc[p] = "DL_WRITE" => ENABLED (DownloadChunk(p) \/ DownloadClose(p))
        /\ pc[p] = "EXTRACT" => ENABLED ExtractOpen(p)
        /\ pc[p] = "REMOVE" => ENABLED RemoveArchive(p)

C7_Witness ==
    \E p \in Procs : \E q \in Procs \ {p} :
        /\ logged[p] # None /\ logged[q] # None
        /\ model_dir[p] = model_dir[q]
        /\ pc[q] = "DL_WRITE" /\ target[q] = "efficientdet-d0.zip"
        /\ woff[q] < Len(Served)
        /\ \/ pc[p] \in {"EXTRACTING", "REMOVE"}
           \/ pc[p] = "FETCH_AUX" /\ Archive(p) \notin DOMAIN files

\* C8 (as stated): whenever no invocation of a caller is under way (it has
\* returned, raised, or not started), that caller holds no session,
\* response or file handle open.
C8_AllReleased ==
    \A p \in Procs : pc[p] \in {"idle", "DONE", "ERROR"} => open[p] = {}

\* C9: with weights_parent_dir set, once _find_paths has run the
\* invocation has failed with FileNotFoundError if the path does not exist
\* (absolute or not) and with ValueError if it exists and is not absolute,
\* having done nothing but RESOLVE_PATH and opened no session; neither ever
\* changes a directory or a file.  An existing absolute path resolves to
\* <path>/peekingduck_weights/<model_subdir>/<model_format>.
C9_BadParentAborts ==
    /\ [](\A p \in Procs :
            (config.weights_parent_dir # <<>> /\ steps[p] # <<>>) =>
                LET d == config.weights_parent_dir
                IN /\ d \notin dirs =>
                        (pc[p] = "ERROR" /\ result[p] = Err("FileNotFoundError")
                         /\ steps[p] = <<"RESOLVE_PATH">> /\ open[p] = {})
                   /\ (d \in dirs /\ d[1] # "/") =>
                        (pc[p] = "ERROR" /\ result[p] = Err("ValueError")
                         /\ steps[p] = <<"RESOLVE_PATH">> /\ open[p] = {})
                   /\ (d \in dirs /\ d[1] = "/") =>
                        model_dir[p] = d \o <<"peekingduck_weights", "efficientdet",
                                              "tensorflow">>)
    /\ [][(config.weights_parent_dir # <<>>
           /\ (config.weights_parent_dir \notin dirs \/ config.weights_parent_dir[1] # "/"))
          => (dirs' = dirs /\ files' = files)]_vars

C9_Witness ==
    \E p \in Procs :
        /\ config.weights_parent_dir = <<"rel">> /\ <<"rel">> \in dirs
        /\ pc[p] = "ERROR" /\ result[p] = Err("ValueError")
        /\ steps[p] = <<"RESOLVE_PATH">>

\* C10: _get_weights_checksum gives the manifest entry at model_subdir,
\* model_format, str(model_type) when the three keys are there and raises
\* KeyError when one is missing; a check that finds the model file present
\* then ends the invocation with that KeyError at CHECK_EXISTING, files and
\* directories untouched and nothing downloaded.
C10_LookupErrorPropagates ==
    /\ [](/\ HasEntry => get_weights_checksum(config, manifest) = Ok(Entry)
          /\ (manifest.up /\ ~HasEntry) =>
                 get_weights_checksum(config, manifest) = Err("KeyError")
          /\ \A p \in Procs :
                (pc[p] = "ERROR" /\ result[p] = Err("KeyError")) =>
                    (steps[p] = <<"RESOLVE_PATH", "CHECK_EXISTING">>
                     /\ manifest.up /\ ~HasEntry /\ Present(p)))
    /\ [][\A p \in Procs :
            (pc[p] = "CHECK_EXISTING" /\ pc'[p] # "CHECK_EXISTING"
             /\ Present(p) /\ manifest.up /\ ~HasEntry) =>
                (pc'[p] = "ERROR" /\ result'[p] = Err("KeyError")
                 /\ dirs' = dirs /\ files' = files)]_vars

C10_Witness ==
    \E p \in Procs :
        /\ pc[p] = "ERROR" /\ result[p] = Err("KeyError") /\ Present(p)
        /\ manifest.up
        /\ "efficientdet" \in DOMAIN manifest.json
        /\ "tensorflow" \in DOMAIN manifest.json["efficientdet"]
        /\ "0" \notin DOMAIN manifest.json["efficientdet"]["tensorflow"]

\* =============================================== ThresholdCheckerMixin
\* A float is finite (held in tenths), an infinity, or not a number.
Fin(n) == [c |-> "fin", n |-> n]
PosInf == [c |-> "inf", n |-> 1]
NegInf == [c |-> "inf", n |-> -1]
NaN == [c |-> "nan", n |-> 0]

\* operator.lt, operator.le, operator.gt and operator.ge on floats.
lt(a, b) ==
    /\ a.c # "nan" /\ b.c # "nan" /\ a # b
    /\ \/ a = NegInf
       \/ b = PosInf
       \/ a.c = "fin" /\ b.c = "fin" /\ a.n < b.n
le(a, b) == lt(a, b) \/ (a.c # "nan" /\ a = b)
gt(a, b) == lt(b, a)
ge(a, b) == le(b, a)

\* method(val, value) for the method _check_within_bounds picked.
Apply(method, a, b) ==
    CASE method = "ge" -> ge(a, b)
      [] method = "gt" -> gt(a, b)
      [] method = "le" -> le(a, b)
      [] method = "lt" -> lt(a, b)

\* A string is a sequence of one-character strings.
Digits == {"0", "1", "2", "3", "4", "5", "6", "7", "8", "9"}
DigitVal(c) ==
    CASE c = "0" -> 0 [] c = "1" -> 1 [] c = "2" -> 2 [] c = "3" -> 3 [] c = "4" -> 4
      [] c = "5" -> 5 [] c = "6" -> 6 [] c = "7" -> 7 [] c = "8" -> 8 [] c = "9" -> 9
DigitChar(d) ==
    CASE d = 0 -> "0" [] d = 1 -> "1" [] d = 2 -> "2" [] d = 3 -> "3" [] d = 4 -> "4"
      [] d = 5 -> "5" [] d = 6 -> "6" [] d = 7 -> "7" [] d = 8 -> "8" [] d = 9 -> "9"
\* What \s of the pattern and str.strip() take for white space.
Spaces == {" ", "\n"}

\* The index after the run of characters of set cs that starts at s[i].
RECURSIVE SkipAll(_, _, _)
SkipAll(s, i, cs) == IF i <= Len(s) /\ s[i] \in cs THEN SkipAll(s, i + 1, cs) ELSE i

\* [-+]? at s[i]: the index after it.
MatchSign(s, i) == IF i <= Len(s) /\ s[i] \in {"-", "+"} THEN i + 1 ELSE i

\* (inf|\d*\.?\d+) at s[i]: the index after the longest match, 0 for none.
MatchValue(s, i) ==
    IF i + 2 <= Len(s) /\ SubSeq(s, i, i + 2) = <<"i", "n", "f">> THEN i + 3
    ELSE LET j == SkipAll(s, i, Digits)
             k == SkipAll(s, j + 1, Digits)
         IN IF j <= Len(s) /\ s[j] = "." /\ k > j + 1 THEN k
            ELSE IF j > i THEN j ELSE 0

\* \s*[-+]?(inf|\d*\.?\d+)\s* at s[i]: the index after it, 0 for no match.
MatchBound(s, i) ==
    LET v == MatchValue(s, MatchSign(s, SkipAll(s, i, Spaces)))
    IN IF v = 0 THEN 0 ELSE SkipAll(s, v, Spaces)

\* interval_pattern.match(interval) is not None.  The $ of the pattern also
\* matches just before a newline that ends the string.
interval_pattern_match(s) ==
    /\ Len(s) >= 1 /\ s[1] \in {"[", "("}
    /\ LET a == MatchBound(s, 2)
       IN /\ a # 0 /\ a <= Len(s) /\ s[a] = ","
          /\ LET b == MatchBound(s, a + 1)
             IN /\ b # 0 /\ b <= Len(s) /\ s[b] \in {"]", ")"}
                /\ \/ b = Len(s)
                   \/ b + 1 = Len(s) /\ s[b + 1] = "\n"

\* str.strip()
RECURSIVE strip(_)
strip(s) ==
    IF s # <<>> /\ Head(s) \in Spaces THEN strip(Tail(s))
    ELSE IF s # <<>> /\ s[Len(s)] \in Spaces THEN strip(SubSeq(s, 1, Len(s) - 1))
    ELSE s

\* str.split(","): the pieces between the commas.
RECURSIVE split(_)
split(s) ==
    LET i == SkipAll(s, 1, {c \in {s[n] : n \in 1..Len(s)} : c # ","})
    IN IF i > Len(s) THEN <<s>>
       ELSE <<SubSeq(s, 1, i - 1)>> \o split(SubSeq(s, i + 1, Len(s)))

\* int() of a run of digits.
RECURSIVE IntVal(_)
IntVal(ds) == IF ds = <<>> THEN 0 ELSE 10 * IntVal(SubSeq(ds, 1, Len(ds) - 1)) + DigitVal(ds[Len(ds)])

\* float(s) for the strings the pattern lets through: an optional sign, then
\* inf or a decimal numeral; anything else is a ValueError.  The value is
\* kept in tenths (the numerals used carry at most one fractional digit).
float(s) ==
    LET signed == s # <<>> /\ s[1] \in {"-", "+"}
        neg == signed /\ s[1] = "-"
        body == IF signed THEN Tail(s) ELSE s
        j == SkipAll(body, 1, Digits)
        whole == SubSeq(body, 1, j - 1)
        frac == IF j <= Len(body) /\ body[j] = "." THEN SubSeq(body, j + 1, Len(body))
                ELSE <<>>
        numeral == /\ \A n \in 1..Len(frac) : frac[n] \in Digits
                   /\ (j > Len(body) \/ body[j] = ".")
                   /\ Len(whole) + Len(frac) > 0
        tenths == 10 * IntVal(whole) + (IF frac = <<>> THEN 0 ELSE DigitVal(frac[1]))
    IN IF body = <<"i", "n", "f">> THEN Ok(IF neg THEN NegInf ELSE PosInf)
       ELSE IF numeral THEN Ok(Fin(IF neg THEN -tenths ELSE tenths))
       ELSE Err("ValueError")

\* str() of a natural number.
RECURSIVE IntStr(_)
IntStr(n) == IF n < 10 THEN DigitChar(n) ELSE IntStr(n \div 10) \o DigitChar(n % 10)

\* How an f-string renders a float: 0.5, 1.0, -0.1, inf, -inf, nan.
FloatRepr(x) ==
    IF x.c = "nan" THEN "nan"
    ELSE IF x.c = "inf" THEN (IF x.n < 0 THEN "-inf" ELSE "inf")
    ELSE LET m == IF x.n < 0 THEN -x.n ELSE x.n
         IN (IF x.n < 0 THEN "-" ELSE "") \o IntStr(m \div 10) \o "." \o DigitChar(m % 10)

\* A key argument is a str, a list (of key arguments) or something else.
StrKey(name) == [t |-> "str", name |-> name, keys |-> <<>>]
ListKey(keys) == [t |-> "list", name |-> "", keys |-> keys]
OtherKey == [t |-> "int", name |-> "", keys |-> <<>>]

\* A configuration value is a number, a list of numbers or a string.
Number(x) == [t |-> "float", v |-> x, vs |-> <<>>, s |-> ""]
List(xs) == [t |-> "list", v |-> NaN, vs |-> xs, s |-> ""]
Text(str) == [t |-> "str", v |-> NaN, vs |-> <<>>, s |-> str]

\* An exception and its message, with the set of choices the message lists
\* (if it lists one).
Raise(type, msg) == Err([type |-> type, msg |-> msg, choices |-> {}])

\* What a call did: its outcome, the keys of self.config it read (one
\* entry per access) and the number of comparisons it made.
Did(res, reads, ncmp) == [res |-> res, reads |-> reads, ncmp |-> ncmp]

\* all(method(val, value) for val in xs): the number of elements it
\* compared, which is Len(xs) + 1 when every comparison held.
RECURSIVE FirstFailure(_, _, _, _)
FirstFailure(xs, i, method, value) ==
    IF i > Len(xs) THEN i
    ELSE IF Apply(method, xs[i], value) THEN FirstFailure(xs, i + 1, method, value)
    ELSE i

\* _compare with any in place of all.
RECURSIVE compare_any(_, _, _, _, _)
RECURSIVE compare_each_any(_, _, _, _, _, _)
compare_any(cfg, key, value, method, reason) ==
    IF key.t = "str"
    THEN IF key.name \notin DOMAIN cfg THEN Did(Raise("KeyError", key.name), <<key.name>>, 0)
         ELSE IF cfg[key.name].t = "list"
         THEN LET f == FirstFailure(cfg[key.name].vs, 1, method, value)
                  n == Len(cfg[key.name].vs)
              IN IF n > 0 /\ \A i \in 1..n : ~Apply(method, cfg[key.name].vs[i], value)
                 THEN Did(Raise("ValueError",
                                "All elements of " \o key.name \o " must be " \o reason),
                          <<key.name, key.name>>, n)
                 ELSE Did(Ok(None), <<key.name, key.name>>, IF f > n THEN n ELSE f)
         ELSE IF cfg[key.name].t # "float"
         THEN Did(Raise("TypeError", "not supported between instances"),
                  <<key.name, key.name>>, 1)
         ELSE IF ~Apply(method, cfg[key.name].v, value)
         THEN Did(Raise("ValueError", key.name \o " must be " \o reason), <<key.name, key.name>>, 1)
         ELSE Did(Ok(None), <<key.name, key.name>>, 1)
    ELSE IF key.t = "list"
    THEN compare_each_any(cfg, key.keys, 1, value, method, reason)
    ELSE Did(Raise("TypeError", "key must be either str or list"), <<>>, 0)
compare_each_any(cfg, keys, i, value, method, reason) ==
    IF i > Len(keys) THEN Did(Ok(None), <<>>, 0)
    ELSE LET d == compare_any(cfg, keys[i], value, method, reason)
         IN IF d.res.kind = "err" THEN d
            ELSE LET e == compare_each_any(cfg, keys, i + 1, value, method, reason)
                 IN Did(e.res, d.reads \o e.reads, d.ncmp + e.ncmp)

\* _compare(key, value, method, reason), and its loop over a list of keys
\* from the i-th on.
RECURSIVE compare(_, _, _, _, _)
RECURSIVE compare_each(_, _, _, _, _, _)
compare(cfg, key, value, method, reason) ==
    IF key.t = "str"
    THEN IF key.name \notin DOMAIN cfg THEN Did(Raise("KeyError", key.name), <<key.name>>, 0)
         ELSE IF cfg[key.name].t = "list"
         THEN LET f == FirstFailure(cfg[key.name].vs, 1, method, value)
                  n == Len(cfg[key.name].vs)
              IN IF f <= n
                 THEN Did(Raise("ValueError",
                                "All elements of " \o key.name \o " must be " \o reason),
                          <<key.name, key.name>>, f)
                 ELSE Did(Ok(None), <<key.name, key.name>>, n)
         ELSE IF cfg[key.name].t # "float"
         THEN Did(Raise("TypeError", "not supported between instances"),
                  <<key.name, key.name>>, 1)
         ELSE IF ~Apply(method, cfg[key.name].v, value)
         THEN Did(Raise("ValueError", key.name \o " must be " \o reason), <<key.name, key.name>>, 1)
         ELSE Did(Ok(None), <<key.name, key.name>>, 1)
    ELSE IF key.t = "list"
    THEN compare_each(cfg, key.keys, 1, value, method, reason)
    ELSE Did(Raise("TypeError", "key must be either str or list"), <<>>, 0)
compare_each(cfg, keys, i, value, method, reason) ==
    IF i > Len(keys) THEN Did(Ok(None), <<>>, 0)
    ELSE LET d == compare(cfg, keys[i], value, method, reason)
         IN IF d.res.kind = "err" THEN d
            ELSE LET e == compare_each(cfg, keys, i + 1, value, method, reason)
                 IN Did(e.res, d.reads \o e.reads, d.ncmp + e.ncmp)

\* _check_within_bounds with the two brackets' methods exchanged.
check_within_bounds_swapped(cfg, key, lower, upper, left_bracket, right_bracket) ==
    LET method_lower == IF left_bracket = "[" THEN "gt" ELSE "ge"
        method_upper == IF right_bracket = "]" THEN "lt" ELSE "le"
        reason == "between " \o left_bracket \o FloatRepr(lower) \o ", "
                      \o FloatRepr(upper) \o right_bracket
        lo == compare(cfg, key, lower, method_lower, reason)
        hi == compare(cfg, key, upper, method_upper, reason)
    IN IF lo.res.kind = "err" THEN lo
       ELSE Did(hi.res, lo.reads \o hi.reads, lo.ncmp + hi.ncmp)

\* _check_within_bounds(key, lower, upper, left_bracket, right_bracket)
check_within_bounds(cfg, key, lower, upper, left_bracket, right_bracket) ==
    LET method_lower == IF left_bracket = "[" THEN "ge" ELSE "gt"
        method_upper == IF right_bracket = "]" THEN "le" ELSE "lt"
        reason == "between " \o left_bracket \o FloatRepr(lower) \o ", "
                      \o FloatRepr(upper) \o right_bracket
        lo == compare(cfg, key, lower, method_lower, reason)
        hi == compare(cfg, key, upper, method_upper, reason)
    IN IF lo.res.kind = "err" THEN lo
       ELSE Did(hi.res, lo.reads \o hi.reads, lo.ncmp + hi.ncmp)

\* check_bounds without the test of the pattern.
check_bounds_unmatched(cfg, key, interval) ==
    LET n == Len(interval)
        pieces == split(SubSeq(interval, 2, n - 1))
        values == [i \in 1..Len(pieces) |-> float(strip(pieces[i]))]
    IN IF n < 2 \/ Len(pieces) # 2
            \/ \E i \in 1..Len(pieces) : values[i].kind = "err"
       THEN check_within_bounds(cfg, key, NegInf, PosInf, "[", "]")
       ELSE IF gt(values[1].val, values[2].val)
       THEN Did(Raise("ValueError", "Lower bound cannot be larger than upper bound"),
                <<>>, 0)
       ELSE check_within_bounds(cfg, key, values[1].val, values[2].val,
                                interval[1], interval[n])

\* check_bounds with the test of lower > upper after the comparisons.
check_bounds_range_last(cfg, key, interval) ==
    IF ~interval_pattern_match(interval)
    THEN Did(Raise("ValueError", "Badly formatted interval"), <<>>, 0)
    ELSE LET n == Len(interval)
             pieces == split(SubSeq(interval, 2, n - 1))
             values == [i \in 1..Len(pieces) |-> float(strip(pieces[i]))]
         IN IF \E i \in 1..Len(pieces) : values[i].kind = "err"
            THEN Did(Raise("ValueError", "could not convert string to float"), <<>>, 0)
            ELSE LET d == check_within_bounds(cfg, key, values[1].val, values[2].val,
                                              interval[1], interval[n])
                 IN IF d.res.kind = "ok" /\ gt(values[1].val, values[2].val)
                    THEN Did(Raise("ValueError",
                                   "Lower bound cannot be larger than upper bound"),
                             d.reads, d.ncmp)
                    ELSE d

\* check_bounds(key, interval)
check_bounds(cfg, key, interval) ==
    IF ~interval_pattern_match(interval)
    THEN Did(Raise("ValueError", "Badly formatted interval"), <<>>, 0)
    ELSE LET n == Len(interval)
             left_bracket == interval[1]
             right_bracket == interval[n]
             pieces == split(SubSeq(interval, 2, n - 1))
             values == [i \in 1..Len(pieces) |-> float(strip(pieces[i]))]
         IN IF \E i \in 1..Len(pieces) : values[i].kind = "err"
            THEN Did(Raise("ValueError", "could not convert string to float"), <<>>, 0)
            ELSE IF Len(pieces) # 2
            THEN Did(Raise("ValueError", "wrong number of values to unpack"), <<>>, 0)
            ELSE IF gt(values[1].val, values[2].val)
            THEN Did(Raise("ValueError", "Lower bound cannot be larger than upper bound"),
                     <<>>, 0)
            ELSE check_within_bounds(cfg, key, values[1].val, values[2].val,
                                     left_bracket, right_bracket)

\* check_valid_choice(key, choices); a list is unhashable, so the test of
\* its membership in a set raises TypeError.
check_valid_choice(cfg, key, choices) ==
    IF key.t # "str"
    THEN Did(Raise("TypeError", "key must be str"), <<>>, 0)
    ELSE IF key.name \notin DOMAIN cfg THEN Did(Raise("KeyError", key.name), <<key.name>>, 0)
    ELSE IF cfg[key.name].t = "list"
    THEN Did(Raise("TypeError", "unhashable type: 'list'"), <<key.name>>, 0)
    ELSE IF cfg[key.name] \notin choices
    THEN Did(Err([type |-> "ValueError", msg |-> key.name \o " must be one of ",
                  choices |-> choices]), <<key.name>>, 0)
    ELSE Did(Ok(None), <<key.name>>, 0)

\* ------------------------------------------------ the validator's inputs
\* A node's configuration: thresholds, lists of thresholds and choices.
ValidatorConfig ==
    [k \in {"below", "neg", "zero", "low", "half", "one", "two", "pinf", "ninf",
            "nan", "pair", "spread", "empty", "mode", "name"} |->
        CASE k = "below" -> Number(Fin(-10))
          [] k = "neg" -> Number(Fin(-5))
          [] k = "zero" -> Number(Fin(0))
          [] k = "low" -> Number(Fin(3))
          [] k = "half" -> Number(Fin(5))
          [] k = "one" -> Number(Fin(10))
          [] k = "two" -> Number(Fin(20))
          [] k = "pinf" -> Number(PosInf)
          [] k = "ninf" -> Number(NegInf)
          [] k = "nan" -> Number(NaN)
          [] k = "pair" -> List(<<Fin(0), Fin(10)>>)
          [] k = "spread" -> List(<<Fin(5), Fin(20), Fin(-5)>>)
          [] k = "empty" -> List(<<>>)
          [] k = "mode" -> Text("a")
          [] k = "name" -> Text("z")]

\* The key arguments tried: every configured key, a key that is not
\* configured, lists of keys (empty, nested, holding a non-key) and a
\* key that is neither a str nor a list.
ValidatorKeys ==
    {StrKey(k) : k \in DOMAIN ValidatorConfig} \cup
    {StrKey("absent"), OtherKey, ListKey(<<>>),
     ListKey(<<StrKey("zero"), StrKey("half")>>),
     ListKey(<<StrKey("half"), StrKey("two")>>),
     ListKey(<<StrKey("neg"), StrKey("half"), StrKey("pair")>>),
     ListKey(<<StrKey("pair"), StrKey("spread")>>),
     ListKey(<<StrKey("half"), ListKey(<<StrKey("one"), StrKey("empty")>>)>>),
     ListKey(<<StrKey("half"), OtherKey>>),
     ListKey(<<StrKey("two"), StrKey("absent")>>)}

\* The ends an interval string is written with, each with the float it
\* denotes.
Numerals ==
    {[text |-> <<"-", "i", "n", "f">>, val |-> NegInf],
     [text |-> <<"-", "0", ".", "5">>, val |-> Fin(-5)],
     [text |-> <<"0">>, val |-> Fin(0)],
     [text |-> <<".", "5">>, val |-> Fin(5)],
     [text |-> <<"1", ".", "0">>, val |-> Fin(10)],
     [text |-> <<"+", "i", "n", "f">>, val |-> PosInf]}

\* The well-formed interval strings: either bracket at each end, any two
\* numerals, written tightly or with white space around them.
WellFormed ==
    {[form |-> "ok", lb |-> lb, lo |-> lo.val, hi |-> hi.val, rb |-> rb,
      text |-> IF sp THEN <<lb, " ">> \o lo.text \o <<" ", ",", " ">> \o hi.text
                              \o <<"\n", rb>>
               ELSE <<lb>> \o lo.text \o <<",">> \o hi.text \o <<rb>>] :
        lb \in {"[", "("}, lo \in Numerals, hi \in Numerals, rb \in {"]", ")"},
        sp \in BOOLEAN}

\* Strings that are no interval: no brackets, a wrong bracket, one end or
\* three, a numeral the pattern does not know, text after the bracket.
Malformed ==
    {[form |-> "bad", lb |-> "?", lo |-> NaN, hi |-> NaN, rb |-> "?", text |-> t] :
        t \in {<<>>,
               <<"0", ",", "1">>,
               <<"{", "0", ",", "1", "}">>,
               <<"[", "0", ",", "1">>,
               <<"[", "0", "]">>,
               <<"[", "0", ",", "1", ",", "2", "]">>,
               <<"[", "1", ".", ",", "2", "]">>,
               <<"[", "n", "a", "n", ",", "1", "]">>,
               <<"[", "a", ",", "b", "]">>,
               <<"[", "-", " ", "1", ",", "1", "]">>,
               <<"[", "1", ",", "0", "]", " ">>,
               <<"[", "0", ",", "1", "]", "\n">>,
               <<"[", "1", ",", "0", "]", "\n">>}}

Intervals == WellFormed \cup Malformed

\* The sets of choices tried.
Choices ==
    {{}, {Text("a"), Text("b")}, {Text("z")}, {Text("b"), Text("c")},
     {Number(Fin(0)), Number(Fin(10))}, {Number(Fin(5))}}

\* The calls a node makes on its validator.
ValidatorCalls ==
    {[op |-> "check_bounds", key |-> k, interval |-> i, choices |-> {}] :
        k \in ValidatorKeys, i \in Intervals} \cup
    {[op |-> "check_valid_choice", key |-> k, choices |-> c,
      interval |-> CHOOSE i \in Malformed : i.text = <<>>] :
        k \in ValidatorKeys, c \in Choices}

\* ----------------------------------------------- the validator's actions
downloader == <<config, manifest, store, dirs, files, pc, model_dir, result, open,
                steps, logged, target, woff, linked, xi>>

\* No download is under way, and none starts.
InitNoDownload ==
    /\ config = CHOOSE c \in Configs : c.weights_parent_dir = <<>>
    /\ manifest = CHOOSE m \in Manifests : m.up
    /\ store = CHOOSE st \in Stores : st.zip
    /\ dirs = ExistingParents /\ files = <<>>
    /\ InitCallers

CheckBounds ==
    /\ vret.res.kind = "none" /\ vcall.op = "check_bounds"
    /\ vret' = check_bounds(ValidatorConfig, vcall.key, vcall.interval.text)
    /\ UNCHANGED <<downloader, vcall, request, response, tree, digest>>

CheckValidChoice ==
    /\ vret.res.kind = "none" /\ vcall.op = "check_valid_choice"
    /\ vret' = check_valid_choice(ValidatorConfig, vcall.key, vcall.choices)
    /\ UNCHANGED <<downloader, vcall, request, response, tree, digest>>

InitValidator ==
    /\ InitNoDownload
    /\ vcall \in ValidatorCalls /\ vret = Did(NoResult, <<>>, 0)
    /\ request = None /\ response = None
    /\ tree = None /\ digest = None

NextValidator == CheckBounds \/ CheckValidChoice

SpecValidator == InitValidator /\ [][NextValidator]_vars

\* ------------------------------------------- properties of the validator
\* The position of a float on the extended real line (nan has none).
Rank(x) == IF x.c = "inf" THEN x.n * 1000 ELSE x.n

\* What the brackets of an interval ask of a value at each end.
HoldsLower(x, i) ==
    x.c # "nan" /\ IF i.lb = "[" THEN Rank(x) >= Rank(i.lo) ELSE Rank(x) > Rank(i.lo)
HoldsUpper(x, i) ==
    x.c # "nan" /\ IF i.rb = "]" THEN Rank(x) <= Rank(i.hi) ELSE Rank(x) < Rank(i.hi)
Within(x, i) == HoldsLower(x, i) /\ HoldsUpper(x, i)

\* The interval as a bounds-violation message states it.
Stated(i) ==
    "between " \o i.lb \o FloatRepr(i.lo) \o ", " \o FloatRepr(i.hi) \o i.rb

Returned == vret.res.kind # "none"
Accepted == vret.res.kind = "ok"
Rejected(type) == vret.res.kind = "err" /\ vret.res.val.type = type

\* check_bounds returned from a well-formed interval with lower <= upper.
BoundsChecked ==
    /\ Returned /\ vcall.op = "check_bounds"
    /\ vcall.interval.form = "ok"
    /\ Rank(vcall.interval.lo) <= Rank(vcall.interval.hi)

\* The key names one configured number.
ScalarKey(key) ==
    /\ key.t = "str" /\ key.name \in DOMAIN ValidatorConfig
    /\ ValidatorConfig[key.name].t = "float"

\* C11: for a well-formed interval with lower <= upper and a scalar
\* configuration value v, check_bounds accepts v exactly when v >= lower
\* (for '[') or v > lower (for '(') and v <= upper (for ']') or v < upper
\* (for ')'); a value violating either end is rejected with a
\* bounds-violation error.
C11_ScalarWithinBounds ==
    (BoundsChecked /\ ScalarKey(vcall.key)) =>
        LET v == ValidatorConfig[vcall.key.name].v
        IN /\ Accepted <=> Within(v, vcall.interval)
           /\ ~Within(v, vcall.interval) =>
                 /\ Rejected("ValueError")
                 /\ vret.res.val.msg =
                        vcall.key.name \o " must be " \o Stated(vcall.interval)

\* A value equal to the closed lower end of a half-open interval was
\* accepted.
C11_Witness ==
    /\ BoundsChecked /\ ScalarKey(vcall.key)
    /\ vcall.interval.lb = "[" /\ vcall.interval.rb = ")"
    /\ ValidatorConfig[vcall.key.name].v = vcall.interval.lo
    /\ Rank(vcall.interval.lo) < Rank(vcall.interval.hi)
    /\ Accepted

\* The names a key argument holds, in order; "?" for what is no name.
RECURSIVE Names(_)
Names(key) ==
    IF key.t = "str" THEN <<key.name>>
    ELSE IF key.t # "list" THEN <<"?">>
    ELSE IF key.keys = <<>> THEN <<>>
    ELSE Names(Head(key.keys)) \o Names([key EXCEPT !.keys = Tail(key.keys)])

\* The elements of a configured value: a scalar is its own single element.
Elements(name) ==
    IF ValidatorConfig[name].t = "list" THEN ValidatorConfig[name].vs
    ELSE <<ValidatorConfig[name].v>>

\* Every name the key holds is configured with a number or a list of them.
NumericKeys(key) ==
    \A n \in 1..Len(Names(key)) :
        /\ Names(key)[n] \in DOMAIN ValidatorConfig
        /\ ValidatorConfig[Names(key)[n]].t \in {"float", "list"}

Violates(name, i) == \E n \in 1..Len(Elements(name)) : ~Within(Elements(name)[n], i)

\* C12: check_bounds on a sequence of keys and/or list-valued entries
\* succeeds exactly when every element of the value of every named key
\* satisfies the comparisons at both ends; when it fails, the error names
\* a key whose value violates the interval and states that interval.
C12_EveryElementOfEveryKey ==
    (BoundsChecked /\ NumericKeys(vcall.key) /\ ~ScalarKey(vcall.key)) =>
        LET names == {Names(vcall.key)[n] : n \in 1..Len(Names(vcall.key))}
        IN /\ Accepted <=> \A name \in names : ~Violates(name, vcall.interval)
           /\ ~Accepted =>
                 /\ Rejected("ValueError")
                 /\ \E name \in names :
                       /\ Violates(name, vcall.interval)
                       /\ vret.res.val.msg =
                              (IF ValidatorConfig[name].t = "list"
                               THEN "All elements of " \o name ELSE name)
                                  \o " must be " \o Stated(vcall.interval)

\* A sequence of keys whose first key passes and whose second, a list, has
\* a passing first element and a violating later one, was rejected.
C12_Witness ==
    /\ BoundsChecked /\ NumericKeys(vcall.key)
    /\ vcall.key.t = "list" /\ Len(Names(vcall.key)) = 2
    /\ ~Violates(Names(vcall.key)[1], vcall.interval)
    /\ ValidatorConfig[Names(vcall.key)[2]].t = "list"
    /\ Within(Elements(Names(vcall.key)[2])[1], vcall.interval)
    /\ Violates(Names(vcall.key)[2], vcall.interval)
    /\ Rejected("ValueError")

\* C13: check_bounds with an interval string that does not match the
\* grammar fails with a format error (a ValueError), having compared no
\* value against a bound and read no configuration value, whatever the key.
C13_MalformedFailsFirst ==
    (Returned /\ vcall.op = "check_bounds" /\ vcall.interval.form = "bad") =>
        /\ Rejected("ValueError")
        /\ vret.res.val.msg \in {"Badly formatted interval",
                                 "could not convert string to float"}
        /\ vret.reads = <<>>
        /\ vret.ncmp = 0

\* An interval with no brackets was rejected for a key whose value lies
\* between the two numbers.
C13_Witness ==
    /\ Returned /\ vcall.op = "check_bounds"
    /\ vcall.interval.text = <<"0", ",", "1">>
    /\ vcall.key = StrKey("half")
    /\ Rejected("ValueError") /\ vret.res.val.msg = "Badly formatted interval"

\* C14: check_bounds with a well-formed interval whose lower end is
\* greater than its upper end fails with the range error, whatever the key
\* and the value, and compares no value against either bound.
C14_LowerAboveUpper ==
    (Returned /\ vcall.op = "check_bounds" /\ vcall.interval.form = "ok"
        /\ Rank(vcall.interval.lo) > Rank(vcall.interval.hi)) =>
        /\ Rejected("ValueError")
        /\ vret.res.val.msg = "Lower bound cannot be larger than upper bound"
        /\ vret.reads = <<>>
        /\ vret.ncmp = 0

\* The interval [1.0, 0] was rejected for a key whose value is 0.5.
C14_Witness ==
    /\ Returned /\ vcall.op = "check_bounds" /\ vcall.interval.form = "ok"
    /\ vcall.interval.lo = Fin(10) /\ vcall.interval.hi = Fin(0)
    /\ vcall.key = StrKey("half")
    /\ Rejected("ValueError")

\* C15: check_valid_choice fails with a type error whenever key is not a
\* single string, without reading the configuration; for a string key it
\* succeeds exactly when the configured value is a member of choices and
\* otherwise fails with a membership error listing the allowed set.
C15_ChoiceOrMembershipError ==
    (Returned /\ vcall.op = "check_valid_choice") =>
        /\ vcall.key.t # "str" => Rejected("TypeError") /\ vret.reads = <<>>
        /\ (vcall.key.t = "str" /\ vcall.key.name \in DOMAIN ValidatorConfig) =>
              /\ Accepted <=> ValidatorConfig[vcall.key.name] \in vcall.choices
              /\ ~Accepted =>
                    /\ Rejected("ValueError")
                    /\ vret.res.val.msg = vcall.key.name \o " must be one of "
                    /\ vret.res.val.choices = vcall.choices

\* C16: for a scalar value and an interval with upper end +inf and a
\* finite lower end, the right bracket makes no difference and the value is
\* accepted exactly when it satisfies the lower comparison; symmetrically
\* for a lower end of -inf and a finite upper end only the upper
\* comparison decides.  This for every value, the infinite ones included.
C16_InfiniteEndNeverExcludes ==
    (BoundsChecked /\ ScalarKey(vcall.key)) =>
        LET v == ValidatorConfig[vcall.key.name].v
            i == vcall.interval
        IN /\ (i.hi = PosInf /\ i.lo.c = "fin") => (Accepted <=> HoldsLower(v, i))
           /\ (i.lo = NegInf /\ i.hi.c = "fin") => (Accepted <=> HoldsUpper(v, i))

\* ------------------------------------------------------ LocalFileAdapter
\* str.lower() of the request methods used.
lower(method) ==
    CASE method \in {"GET", "Get", "get"} -> "get"
      [] method \in {"HEAD", "head"} -> "head"
      [] method \in {"PUT", "put"} -> "put"
      [] method \in {"DELETE", "Delete"} -> "delete"
      [] method = "POST" -> "post"
      [] method = "OPTIONS" -> "options"
      [] method = "PATCH" -> "patch"

Methods ==
    {"GET", "Get", "get", "HEAD", "head", "PUT", "put", "DELETE", "Delete",
     "POST", "OPTIONS", "PATCH"}

\* os.path.normpath of an absolute path: empty and "." components are
\* dropped and ".." drops the component before it (none at the root).
RECURSIVE normpath_onto(_, _)
normpath_onto(done, rest) ==
    IF rest = <<>> THEN done
    ELSE IF Head(rest) \in {"", "."} THEN normpath_onto(done, Tail(rest))
    ELSE IF Head(rest) = ".."
    THEN normpath_onto(IF Len(done) > 1 THEN SubSeq(done, 1, Len(done) - 1) ELSE done,
                       Tail(rest))
    ELSE normpath_onto(Append(done, Head(rest)), Tail(rest))
normpath(path) == normpath_onto(<<"/">>, Tail(path))

\* What the file system holds at a path when the request arrives: nothing,
\* a directory, a regular file or a special file (FIFO, socket, device);
\* whether os.access grants reading; the error open() raises, if any; and
\* the bytes of the file.
Node(kind, readable, oserror, data) ==
    [kind |-> kind, readable |-> readable, oserror |-> oserror, data |-> data]

Missing == Node("missing", FALSE, "No such file or directory", <<>>)

AdapterDisk ==
    [path \in {<<"/", "w">>, <<"/", "w", "a.zip">>, <<"/", "w", "empty">>,
               <<"/", "w", "secret">>, <<"/", "w", "busy">>, <<"/", "w", "denied">>,
               <<"/", "w", "pipe">>, <<"/", "w", "locked">>} |->
        CASE path = <<"/", "w">> -> Node("dir", TRUE, "Is a directory", <<>>)
          [] path = <<"/", "w", "a.zip">> -> Node("file", TRUE, "", <<1, 0, 1>>)
          [] path = <<"/", "w", "empty">> -> Node("file", TRUE, "", <<>>)
          [] path = <<"/", "w", "secret">> ->
                 Node("file", FALSE, "Permission denied", <<7>>)
          [] path = <<"/", "w", "busy">> ->
                 Node("file", TRUE, "Too many open files", <<3, 4>>)
          [] path = <<"/", "w", "denied">> ->
                 Node("file", TRUE, "Permission denied", <<5>>)
          [] path = <<"/", "w", "pipe">> -> Node("special", TRUE, "", <<>>)
          [] path = <<"/", "w", "locked">> ->
                 Node("dir", FALSE, "Is a directory", <<>>)]

\* The node at a path.
At(path) == IF path \in DOMAIN AdapterDisk THEN AdapterDisk[path] ELSE Missing

\* The paths of the URLs requested, as url2pathname gives them (the URLs
\* used carry no escapes, and normcase changes nothing on POSIX).
RequestPaths ==
    DOMAIN AdapterDisk \cup
    {<<"/", "w", "gone">>, <<"/", "w", ".", "a.zip">>, <<"/", "w", "x", "..", "a.zip">>,
     <<"/", "w", "", "secret">>, <<"/", "w", "a.zip", "..">>, <<"/", "..", "w", "pipe">>,
     <<"/", "w", "a.zip", "inner">>}

Requests == [method : Methods, path_url : RequestPaths]

\* _chkpath that checks the path before the method.
chkpath_path_first(method, path) ==
    IF At(path).kind = "dir" THEN [status_code |-> 400, reason |-> "Path Not A File"]
    ELSE IF At(path).kind # "file"
    THEN [status_code |-> 404, reason |-> "File Not Found"]
    ELSE IF ~At(path).readable THEN [status_code |-> 403, reason |-> "Access Denied"]
    ELSE IF lower(method) \in {"put", "delete"}
    THEN [status_code |-> 501, reason |-> "Not Implemented"]
    ELSE IF lower(method) \notin {"get", "head"}
    THEN [status_code |-> 405, reason |-> "Method Not Allowed"]
    ELSE [status_code |-> 200, reason |-> "OK"]

\* _chkpath(method, path)
chkpath(method, path) ==
    IF lower(method) \in {"put", "delete"}
    THEN [status_code |-> 501, reason |-> "Not Implemented"]
    ELSE IF lower(method) \notin {"get", "head"}
    THEN [status_code |-> 405, reason |-> "Method Not Allowed"]
    ELSE IF At(path).kind = "dir" THEN [status_code |-> 400, reason |-> "Path Not A File"]
    ELSE IF At(path).kind # "file"
    THEN [status_code |-> 404, reason |-> "File Not Found"]
    ELSE IF ~At(path).readable THEN [status_code |-> 403, reason |-> "Access Denied"]
    ELSE [status_code |-> 200, reason |-> "OK"]

\* response.raw: no file, or a file open for reading at a position.
NoRaw == [file |-> <<>>, pos |-> 0]
Raw(path) == [file |-> path, pos |-> 0]

\* A requests.Response() before send has filled it (0 for no status), and
\* what the client has read of its body.
NoResponse ==
    [status_code |-> 0, reason |-> "", raw |-> NoRaw, url |-> <<>>, content |-> <<>>]

\* send that opens the file whatever the method is.
send_opening_for_head(req) ==
    LET path == normpath(req.path_url)
        chk == chkpath(req.method, path)
        opening == chk.status_code = 200
        failed == opening /\ At(path).oserror # ""
    IN [status_code |-> IF failed THEN 500 ELSE chk.status_code,
        reason |-> IF failed THEN At(path).oserror ELSE chk.reason,
        raw |-> IF opening /\ ~failed THEN Raw(path) ELSE NoRaw,
        url |-> req.path_url,
        content |-> <<>>]

\* send(req)
send(req) ==
    LET path == normpath(req.path_url)
        chk == chkpath(req.method, path)
        opening == chk.status_code = 200 /\ lower(req.method) # "head"
        failed == opening /\ At(path).oserror # ""
    IN [status_code |-> IF failed THEN 500 ELSE chk.status_code,
        reason |-> IF failed THEN At(path).oserror ELSE chk.reason,
        raw |-> IF opening /\ ~failed THEN Raw(path) ELSE NoRaw,
        url |-> req.path_url,
        content |-> <<>>]

\* The adapter answers the request.
Send ==
    /\ response.status_code = 0
    /\ response' = send(request)
    /\ UNCHANGED <<downloader, vcall, vret, request, tree, digest>>

\* The client reads the next chunk of response.raw, if there is one.
ReadRaw ==
    /\ response.status_code # 0
    /\ response.raw.file # <<>>
    /\ response.raw.pos < Len(At(response.raw.file).data)
    /\ LET data == At(response.raw.file).data
           upto == IF response.raw.pos + BufferSize > Len(data) THEN Len(data)
                   ELSE response.raw.pos + BufferSize
       IN response' = [response EXCEPT
                          !.raw.pos = upto,
                          !.content = @ \o SubSeq(data, response.raw.pos + 1, upto)]
    /\ UNCHANGED <<downloader, vcall, vret, request, tree, digest>>

InitAdapter ==
    /\ InitNoDownload
    /\ vcall = None /\ vret = None
    /\ request \in Requests /\ response = NoResponse
    /\ tree = None /\ digest = None

NextAdapter == Send \/ ReadRaw

SpecAdapter == InitAdapter /\ [][NextAdapter]_vars

\* --------------------------------------------- properties of the adapter
Sent == response.status_code # 0

\* The path the request names and what the file system holds there.
Asked == normpath(request.path_url)

MethodIs(names) == lower(request.method) \in names

\* The table as stated: a path that exists and is no directory is served
\* (200) if readable, refused (403) if not.
StatedRow ==
    IF MethodIs({"put", "delete"}) THEN 501
    ELSE IF ~MethodIs({"get", "head"}) THEN 405
    ELSE IF At(Asked).kind = "dir" THEN 400
    ELSE IF At(Asked).kind = "missing" THEN 404
    ELSE IF ~At(Asked).readable THEN 403
    ELSE 200

\* C17 as stated: the status of every response is the first matching row
\* of the table 501 (PUT, DELETE), 405 (other than GET, HEAD), 400
\* (directory), 404 (does not exist), 403 (exists, unreadable), 200
\* (otherwise); so GET and HEAD get the same status for the same path.
C17_StatusIsStatedRow == Sent => response.status_code = StatedRow

\* C17, amended: 404 is the row of every path that is not a regular file
\* (nonexistent, or a special file), 403 that of an unreadable regular
\* file, and the 200 of the last row becomes 500 for a method other than
\* HEAD when opening the file fails.
C17_StatusTable ==
    Sent =>
        response.status_code =
            IF MethodIs({"put", "delete"}) THEN 501
            ELSE IF ~MethodIs({"get", "head"}) THEN 405
            ELSE IF At(Asked).kind = "dir" THEN 400
            ELSE IF At(Asked).kind # "file" THEN 404
            ELSE IF ~At(Asked).readable THEN 403
            ELSE IF MethodIs({"get"}) /\ At(Asked).oserror # "" THEN 500
            ELSE 200

\* A GET and a HEAD of an existing, readable special file were answered.
C17_Witness ==
    /\ Sent /\ MethodIs({"get", "head"})
    /\ At(Asked).kind = "special" /\ At(Asked).readable
    /\ response.status_code = 404

\* C18: the file is open exactly in the responses with status 200 to a
\* method other than HEAD, and then the body streams the bytes of the file
\* asked for; a HEAD response and every non-200 response carry no body;
\* status 500 arises only when opening fails after the path check gave
\* 200 for a method other than HEAD, with the OS error as the reason.
C18_BodyOnlyForGet200 ==
    Sent =>
        /\ response.raw # NoRaw <=> response.status_code = 200 /\ ~MethodIs({"head"})
        /\ response.raw # NoRaw =>
              /\ response.raw.file = Asked
              /\ response.content = SubSeq(At(Asked).data, 1, response.raw.pos)
        /\ response.raw = NoRaw => response.content = <<>>
        /\ response.status_code = 500 =>
              /\ chkpath(request.method, Asked).status_code = 200
              /\ ~MethodIs({"head"})
              /\ At(Asked).oserror # ""
              /\ response.reason = At(Asked).oserror

\* A GET of a file of more than one chunk has been read to its end.
C18_Witness ==
    /\ Sent /\ MethodIs({"get"}) /\ response.status_code = 200
    /\ Len(At(Asked).data) > BufferSize
    /\ response.content = At(Asked).data

\* ----------------------------------------------- sha256sum of a directory
\* A path to hash: a regular file with its bytes, or a directory with its
\* entries in the order iterdir returns them.
File(name, data) == [kind |-> "file", name |-> name, data |-> data, entries |-> <<>>]
Dir(name, entries) == [kind |-> "dir", name |-> name, data |-> <<>>, entries |-> entries]

\* The entry names used, in the order Python sorts them (by code point).
SortedNames == <<".DS_Store", "__MACOSX", "__macosx", "a.txt", "b.txt", "sub", "weights">>
NameRank(name) == CHOOSE n \in 1..Len(SortedNames) : SortedNames[n] = name

\* sorted(path.iterdir()): the entries of one directory, by name.
RECURSIVE sorted(_)
sorted(entries) ==
    IF entries = <<>> THEN <<>>
    ELSE LET least == CHOOSE n \in 1..Len(entries) :
                          \A m \in 1..Len(entries) :
                              NameRank(entries[n].name) <= NameRank(entries[m].name)
         IN <<entries[least]>> \o
            sorted(SubSeq(entries, 1, least - 1) \o SubSeq(entries, least + 1, Len(entries)))

\* The names sha256sum passes over.
Skipped == {".DS_Store", "__MACOSX"}

\* sha256sum of a path without sorted(): entries as iterdir returns them.
RECURSIVE sha256sum_path_unsorted(_, _)
RECURSIVE sha256sum_unsorted_from(_, _, _)
sha256sum_path_unsorted(path, hash_func) ==
    IF path.kind = "dir" THEN sha256sum_unsorted_from(path.entries, 1, hash_func)
    ELSE sha256sum(path.data, hash_func)
sha256sum_unsorted_from(entries, n, hash_func) ==
    IF n > Len(entries) THEN hash_func
    ELSE sha256sum_unsorted_from(entries, n + 1,
             IF entries[n].name \notin Skipped
             THEN sha256sum_path_unsorted(entries[n], hash_func)
             ELSE hash_func)

\* sha256sum of a path with a fresh hash for every entry of a directory.
RECURSIVE sha256sum_path_unthreaded(_, _)
RECURSIVE sha256sum_unthreaded_from(_, _, _)
sha256sum_path_unthreaded(path, hash_func) ==
    IF path.kind = "dir" THEN sha256sum_unthreaded_from(sorted(path.entries), 1, hash_func)
    ELSE sha256sum(path.data, hash_func)
sha256sum_unthreaded_from(entries, n, hash_func) ==
    IF n > Len(entries) THEN hash_func
    ELSE sha256sum_unthreaded_from(entries, n + 1,
             IF entries[n].name \notin Skipped
             THEN sha256sum_path_unthreaded(entries[n], <<>>)
             ELSE hash_func)

\* sha256sum(path, hash_func) for a file or a directory, and its loop over
\* the sorted entries of a directory from the n-th on.
RECURSIVE sha256sum_path(_, _)
RECURSIVE sha256sum_from(_, _, _)
sha256sum_path(path, hash_func) ==
    IF path.kind = "dir" THEN sha256sum_from(sorted(path.entries), 1, hash_func)
    ELSE sha256sum(path.data, hash_func)
sha256sum_from(entries, n, hash_func) ==
    IF n > Len(entries) THEN hash_func
    ELSE sha256sum_from(entries, n + 1,
             IF entries[n].name \notin Skipped
             THEN sha256sum_path(entries[n], hash_func)
             ELSE hash_func)

\* The trees hashed: the two files of one directory, a nested directory,
\* an empty directory, a single file, an empty file, and a directory whose
\* names come close to the skipped ones.
Trees ==
    {Dir("weights", <<File("b.txt", <<1>>), File("a.txt", <<0, 1, 2>>)>>),
     Dir("weights", <<File("a.txt", <<1, 0>>),
                      Dir("sub", <<File("b.txt", <<2, 2, 1>>)>>)>>),
     Dir("weights", <<>>),
     File("a.txt", <<1, 0, 1>>),
     File("a.txt", <<>>),
     Dir("__MACOSX", <<File("a.txt", <<2, 0>>), File("__macosx", <<1>>)>>)}

\* What an unpacking on macOS leaves behind.
Junk ==
    {File(".DS_Store", <<2, 1>>),
     Dir("__MACOSX", <<File("a.txt", <<1, 1>>)>>)}

\* The directories of a tree, each as the indices leading to it.
RECURSIVE DirsOf(_)
DirsOf(path) ==
    IF path.kind # "dir" THEN {}
    ELSE {<<>>} \cup
         UNION {{<<n>> \o d : d \in DirsOf(path.entries[n])} : n \in 1..Len(path.entries)}

RECURSIVE EntriesAt(_, _)
EntriesAt(path, where) ==
    IF where = <<>> THEN path.entries
    ELSE EntriesAt(path.entries[Head(where)], Tail(where))

\* The tree with the directory at where listing entries instead.
RECURSIVE Relisted(_, _, _)
Relisted(path, where, entries) ==
    IF where = <<>> THEN [path EXCEPT !.entries = entries]
    ELSE [path EXCEPT !.entries[Head(where)] = Relisted(@, Tail(where), entries)]

\* The number of skipped names in a tree, and whether every directory
\* lists its entries in sorted order.
RECURSIVE JunkIn(_)
JunkIn(path) ==
    IF path.kind # "dir" \/ path.entries = <<>> THEN 0
    ELSE (IF Head(path.entries).name \in Skipped THEN 1 ELSE 0)
         + JunkIn(Head(path.entries))
         + JunkIn([path EXCEPT !.entries = Tail(path.entries)])
RECURSIVE ListedSorted(_)
ListedSorted(path) ==
    \A n \in 1..Len(path.entries) :
        /\ ListedSorted(path.entries[n])
        /\ n > 1 => NameRank(path.entries[n - 1].name) < NameRank(path.entries[n].name)

\* One call of sha256sum as the caller sees it: the hex digest, and the
\* state of the tree it was taken of.
Seen(hex, path) == [hex |-> hex, junk |-> JunkIn(path), sorted |-> ListedSorted(path)]

\* No call yet.
NoDigest == [calls |-> 0, first |-> Seen("", File("", <<>>)), last |-> Seen("", File("", <<>>))]

\* The file system returns the entries of a directory in another order.
Reorder ==
    /\ \E where \in DirsOf(tree) : \E n \in 1..Len(EntriesAt(tree, where)) - 1 :
          LET es == EntriesAt(tree, where)
          IN tree' = Relisted(tree, where, [es EXCEPT ![n] = es[n + 1], ![n + 1] = es[n]])
    /\ UNCHANGED <<downloader, vcall, vret, request, response, digest>>

\* A .DS_Store file or a __MACOSX directory appears in some directory.
AddJunk ==
    /\ \E where \in DirsOf(tree) : \E j \in Junk :
          LET es == EntriesAt(tree, where)
          IN /\ \A n \in 1..Len(es) : es[n].name # j.name
             /\ where # <<>> => EntriesAt(tree, SubSeq(where, 1, Len(where) - 1))
                                    [where[Len(where)]].name \notin Skipped
             /\ tree' = Relisted(tree, where, Append(es, j))
    /\ UNCHANGED <<downloader, vcall, vret, request, response, digest>>

\* A .DS_Store or __MACOSX entry is removed.
RemoveJunk ==
    /\ \E where \in DirsOf(tree) : \E n \in 1..Len(EntriesAt(tree, where)) :
          LET es == EntriesAt(tree, where)
          IN /\ es[n].name \in Skipped
             /\ tree' = Relisted(tree, where,
                                 SubSeq(es, 1, n - 1) \o SubSeq(es, n + 1, Len(es)))
    /\ UNCHANGED <<downloader, vcall, vret, request, response, digest>>

\* sha256sum(path).hexdigest()
Hash ==
    /\ LET seen == Seen(hexdigest(sha256sum_path(tree, <<>>)), tree)
       IN digest' = [calls |-> IF digest.calls = 0 THEN 1 ELSE 2,
                     first |-> IF digest.calls = 0 THEN seen ELSE digest.first,
                     last |-> seen]
    /\ UNCHANGED <<downloader, vcall, vret, request, response, tree>>

InitHash ==
    /\ InitNoDownload
    /\ vcall = None /\ vret = None
    /\ request = None /\ response = None
    /\ tree \in Trees /\ digest = NoDigest

NextHash == Reorder \/ AddJunk \/ RemoveJunk \/ Hash

SpecHash == InitHash /\ [][NextHash]_vars

\* ----------------------------------------------- properties of sha256sum
\* The files of a tree that lie under no skipped name, each with the names
\* leading to it from the root.
RECURSIVE FilesOf(_, _)
FilesOf(path, names) ==
    IF path.kind = "file" THEN {[names |-> names, data |-> path.data]}
    ELSE UNION {FilesOf(path.entries[n], Append(names, path.entries[n].name)) :
                   n \in {m \in 1..Len(path.entries) : path.entries[m].name \notin Skipped}}

\* Depth-first, name-sorted order: the first name that differs decides.
RECURSIVE Before(_, _)
Before(a, b) ==
    IF a = <<>> THEN b # <<>>
    ELSE IF b = <<>> THEN FALSE
    ELSE IF Head(a) # Head(b) THEN NameRank(Head(a)) < NameRank(Head(b))
    ELSE Before(Tail(a), Tail(b))

\* The contents of a set of files, one after another in that order.
RECURSIVE Concatenated(_)
Concatenated(fs) ==
    IF fs = {} THEN <<>>
    ELSE LET f == CHOOSE x \in fs : \A y \in fs \ {x} : Before(x.names, y.names)
         IN f.data \o Concatenated(fs \ {f})

\* The digest of a byte stream fed to a new hash in one piece.
DigestOf(bytes) == hexdigest(update(<<>>, bytes))

\* C19: sha256sum of a tree is deterministic and independent of creation
\* and iteration order: whatever order the entries are listed in, however
\* many .DS_Store and __MACOSX entries were added or removed at any depth
\* between two calls, and when nothing changed in between, the two calls
\* give the same digest.
C19_SameDigestWhateverOrder ==
    digest.calls > 0 => digest.first.hex = digest.last.hex

\* Two calls were made, one on a tree listed in sorted order and one on
\* the tree listed otherwise, with a different number of skipped entries.
C19_Witness ==
    /\ digest.calls = 2
    /\ digest.first.sorted # digest.last.sorted
    /\ digest.first.junk # digest.last.junk
    /\ digest.last.junk > 1
    /\ digest.last.hex # ""

\* C20: one accumulator goes through the whole recursion: each call gives
\* the digest of the single byte stream made of the contents of all
\* non-skipped files in depth-first, name-sorted order, whatever the chunk
\* size; no name and no per-file digest is fed, and an empty directory
\* hashes like an empty file.
C20_DigestOfConcatenation ==
    [][digest' # digest =>
          /\ digest'.last.hex = DigestOf(Concatenated(FilesOf(tree, <<>>)))
          /\ FilesOf(tree, <<>>) = {} =>
                digest'.last.hex = hexdigest(sha256sum(<<>>, <<>>))]_vars

\* A tree with a file beside a directory holding a file, one of them
\* longer than a chunk, has been hashed while listed out of order.
C20_Witness ==
    /\ digest.calls > 0 /\ ~digest.last.sorted
    /\ \E n \in 1..Len(tree.entries) :
          /\ tree.entries[n].kind = "dir" /\ tree.entries[n].name \notin Skipped
          /\ FilesOf(tree.entries[n], <<>>) # {}
    /\ \E f \in FilesOf(tree, <<>>) : Len(f.data) > BufferSize
    /\ digest.last.hex = "0100020201"

\* ------------------------------------- the directory of one invocation
\* <parent>/peekingduck_weights/<model_subdir>/<model_format>, <parent>
\* being weights_parent_dir or, when that is unset, the parent of the
\* install root.
Resolved ==
    (IF config.weights_parent_dir = <<>>
     THEN SubSeq(config.root, 1, Len(config.root) - 1)
     ELSE config.weights_parent_dir)
        \o <<"peekingduck_weights", "efficientdet", "tensorflow">>

\* The paths whose file was written, created or removed by a step.
Touched ==
    {q \in DOMAIN files \cup DOMAIN files' :
        \/ q \notin DOMAIN files \/ q \notin DOMAIN files'
        \/ files[q] # files'[q]}

\* C21: one directory is used throughout an invocation: the directory
\* whose model file CHECK_EXISTING looks for, the directory made in FETCH,
\* the directory the archive and the classes file are written to and the
\* members are extracted into, and the directory returned at DONE are all
\* <parent>/peekingduck_weights/<model_subdir>/<model_format>.
C21_OneDirectoryThroughout ==
    /\ [](\A p \in Procs :
            /\ "CHECK_EXISTING" \in Steps(p) \/ pc[p] = "CHECK_EXISTING" =>
                  model_dir[p] = Resolved
            /\ "MKDIR" \in Steps(p) => Resolved \in dirs
            /\ pc[p] = "DONE" => result[p] = Ok(Resolved))
    /\ [][/\ \A q \in Touched :
               /\ Len(q) = Len(Resolved) + 1
               /\ SubSeq(q, 1, Len(Resolved)) = Resolved
          /\ \A d \in dirs' \ dirs : IsPrefix(d, Resolved)
          /\ \A p \in Procs :
               (pc[p] = "CHECK_EXISTING" /\ pc'[p] # "CHECK_EXISTING") =>
                   (logged'[p] = NoWeights
                      <=> Resolved \o <<"efficientdet-d0.pb">> \notin DOMAIN files)
          /\ \A p \in Procs :
               (pc[p] = "DL_OPEN" /\ pc'[p] = "DL_WRITE") =>
                   Resolved \o <<target[p]>> \in Touched \cup DOMAIN files'
          /\ \A p \in Procs :
               (pc[p] = "EXTRACTING" /\ xi'[p] = xi[p] + 1) =>
                   Resolved \o <<store.members[xi[p]].name>> \in DOMAIN files'
         ]_vars

\* With weights_parent_dir set, an invocation made the directory, fetched
\* and extracted the archive, fetched the classes file and returned.
C21_Witness ==
    \E p \in Procs :
        /\ config.weights_parent_dir # <<>>
        /\ pc[p] = "DONE" /\ steps[p] = FullRun /\ "GET_CLASSES" \in Steps(p)
        /\ result[p] = Ok(Resolved)
        /\ Resolved \o <<"coco.json">> \in DOMAIN files
        /\ Resolved \o <<"efficientdet-d0.pb">> \in DOMAIN files

\* C22: after any sequence of invocations on the same target directory,
\* failed ones included, an invocation that returns normally returns a
\* directory that holds the model file and, when a classes filename is
\* declared, the classes file.
C22_ReturnedDirectoryComplete ==
    \A p \in Procs :
        (pc[p] = "DONE" /\ result[p].kind = "ok") =>
            /\ result[p].val \o <<"efficientdet-d0.pb">> \in DOMAIN files
            /\ config.weights.tensorflow.classes_file # None =>
                  result[p].val \o <<config.weights.tensorflow.classes_file>>
                      \in DOMAIN files

\* C23: in CHECK_EXISTING the manifest is requested exactly when the model
\* file has been found present: with the model file absent the check makes
\* no request and the invocation goes on to FETCH whatever the manifest is,
\* and with the model file present a manifest that is unreachable or lacks
\* the entry ends the invocation there with that error.
C23_ManifestOnlyIfPresent ==
    [][\A p \in Procs :
          (pc[p] = "CHECK_EXISTING" /\ pc'[p] # "CHECK_EXISTING") =>
              /\ "manifest_session" \in open'[p] <=> Present(p)
              /\ ~Present(p) =>
                    (pc'[p] = "FETCH" /\ result'[p] = NoResult
                     /\ logged'[p] = NoWeights)
              /\ (Present(p) /\ ~HasEntry) =>
                    /\ pc'[p] = "ERROR"
                    /\ result'[p] = Err(IF manifest.up THEN "KeyError"
                                        ELSE "ConnectionError")]_vars

\* A first-time download ran to its end although the manifest was
\* unreachable.
C23_Witness ==
    \E p \in Procs :
        /\ ~manifest.up
        /\ pc[p] = "DONE" /\ steps[p] = FullRun
        /\ "manifest_session" \notin open[p]
        /\ Present(p)
====
